---- MODULE Spec2Model ----
(***************************************************************************)
(* Model of the frame encryption core of RingRTC                           *)
(* (src/rust/src/core/crypto.rs): SenderState, ReceiverState and Context.  *)
(*                                                                         *)
(* Cryptographic primitives are modelled symbolically (Dolev-Yao style):   *)
(*  - a Secret is a root secret ratcheted n times: [root, n]; one HKDF     *)
(*    expansion with the ratchet info string maps [root, n] to             *)
(*    [root, n + 1] (the chain is one-way, acyclic and collision free);    *)
(*  - an AES or HMAC key is the pair <<info string, secret>>;              *)
(*  - a MAC is the record of everything fed to HMAC together with the key; *)
(*  - a data buffer is the plaintext bytes plus the set of AES-CTR         *)
(*    keystreams <<key, iv>> currently XOR-ed onto it (XOR-ing the same    *)
(*    keystream twice cancels).                                            *)
(* Everything else (counters, sequences, the two decrypt phases, the       *)
(* retention rules) is computed as the code computes it.                   *)
(***************************************************************************)
EXTENDS Integers, Sequences, FiniteSets, TLC

VARIABLES
    sender_state,         \* Context.sender_state, per context
    next_frame_counter,   \* Context.next_frame_counter, per context
    remote_states_by_id,  \* Context.remote_states_by_id, per context
    wire,                 \* frames produced by encrypt, in call order
    last,                 \* the last call: its arguments, return value, buffer
    added,                \* history of add_receive_secret calls per context, sender
    outcome,              \* per context: wire index -> result of its decrypt
    loop,                 \* a try_advance_ratchet / limit_ooo call run pass by pass
    response_callbacks,   \* DelegatingClient.response_callbacks (ResponseCallbacks)
    locks,                \* holder of each Mutex of the DelegatingClient, 0 when free
    thread,               \* per thread: its stack of DelegatingClient calls in progress
    history               \* what the DelegatingClient did: ids given, seen, callbacks run

\* the state of the crypto Contexts and of the calls made on them
contextVars == <<sender_state, next_frame_counter, remote_states_by_id, wire,
                 last, added, outcome>>

\* the state of the DelegatingClient and of the threads calling it
clientVars == <<response_callbacks, locks, thread, history>>

vars == <<sender_state, next_frame_counter, remote_states_by_id, wire, last,
          added, outcome, loop, response_callbacks, locks, thread, history>>

----------------------------------------------------------------------------
\* Program constants

MAX_RECEIVER_STATES_TO_RETAIN == 5

MAX_OOO_FRAMES == 300

MAX_OOO_RATCHETS == 5

\* RatchetCounter = u8: counters live in 0 .. 255
RatchetCounterModulus == 256

----------------------------------------------------------------------------
\* Bounds and input domains of the model

\* encrypt calls in one behaviour of Spec
MaxFrames == 2

\* advance_send_ratchet calls on one send chain in Spec
MaxAdvance == 1

\* add_receive_secret calls on one context in Spec
MaxAdds == 1

\* root secrets (32 random bytes each), by name
Secrets == {1, 2}

\* remote sender ids
SenderIds == {1, 2}

\* plaintext buffers: byte sequences, the empty one included
Plaintexts == {<<>>, <<7>>}

----------------------------------------------------------------------------
\* Primitives

\* A caller-supplied 32-byte secret that no ratchet step produced.
Root(s) == [root |-> s, n |-> 0]

\* Hkdf::<Sha256>::new(None, secret).expand(RATCHET_INFO_STRING, secret)
HkdfRatchet(secret) == [secret EXCEPT !.n = @ + 1]

\* SenderState::derive_aes_key
DeriveAesKey(secret) == <<"RingRTC AES Key", secret>>

\* SenderState::derive_hmac_key
DeriveHmacKey(secret) == <<"RingRTC HMAC Key", secret>>

\* u8::wrapping_add(1)
WrappingAdd1(x) == (x + 1) % RatchetCounterModulus

\* u8::wrapping_sub
WrappingSubU8(a, b) == (a - b + RatchetCounterModulus) % RatchetCounterModulus

\* frame_counter.wrapping_sub(ratchet_frame) > MAX_OOO_FRAMES on u64.  For
\* a < b the wrapped difference is 2^64 - (b - a), which exceeds
\* MAX_OOO_FRAMES for every b - a < 2^64 - 300 (all counters of the model).
WrappingSubExceeds(a, b) ==
    IF a >= b THEN a - b > MAX_OOO_FRAMES ELSE TRUE

\* convert_frame_counter_to_iv: bytes 0..7 hold the counter big-endian,
\* bytes 8..15 are zero; as two 64-bit words.
ConvertFrameCounterToIv(frame_counter) == <<frame_counter, 0>>

\* len_as_u32_be_bytes: the length cast to u32 (buffers of the model are
\* far shorter than 2^32 bytes, where the cast would truncate)
LenAsU32(data) == Len(data.bytes)

\* HMAC-SHA-256 over iv, length, data and a zero u32, cut to MAC_SIZE_BYTES.
ComputeMac(hmac_key, iv, data) ==
    [key |-> hmac_key, iv |-> iv, len |-> LenAsU32(data), data |-> data,
     tail |-> 0, flip |-> 0]

\* Aes256Ctr::new(key, iv).apply_keystream(data): XOR with the keystream
ApplyKeystream(aes_key, iv, data) ==
    LET k == <<aes_key, iv>>
    IN  [data EXCEPT !.ks = IF k \in @ THEN @ \ {k} ELSE @ \cup {k}]

\* a plaintext buffer handed to encrypt
Buffer(p) == [bytes |-> p, ks |-> {}]

----------------------------------------------------------------------------
\* SenderState

SenderStateNew(ratchet_counter, secret) ==
    [current_aes_key  |-> DeriveAesKey(secret),
     current_hmac_key |-> DeriveHmacKey(secret),
     current_secret   |-> secret,
     ratchet_counter  |-> ratchet_counter]

\* mut_advance_ratchet that ratchets the secret and the counter and keeps
\* the keys of the previous secret
MutAdvanceRatchetStaleKeys(self) ==
    [self EXCEPT !.current_secret  = HkdfRatchet(@),
                 !.ratchet_counter = WrappingAdd1(@)]

\* mut_advance_ratchet whose counter stops at the last value of a u8
MutAdvanceRatchetSaturating(self) ==
    LET secret == HkdfRatchet(self.current_secret)
    IN  [current_aes_key  |-> DeriveAesKey(secret),
         current_hmac_key |-> DeriveHmacKey(secret),
         current_secret   |-> secret,
         ratchet_counter  |-> IF self.ratchet_counter = RatchetCounterModulus - 1
                              THEN self.ratchet_counter
                              ELSE self.ratchet_counter + 1]

MutAdvanceRatchet(self) ==
    LET secret == HkdfRatchet(self.current_secret)
    IN  [current_aes_key  |-> DeriveAesKey(secret),
         current_hmac_key |-> DeriveHmacKey(secret),
         current_secret   |-> secret,
         ratchet_counter  |-> WrappingAdd1(self.ratchet_counter)]

----------------------------------------------------------------------------
\* ReceiverState

ReceiverStateNew(ratchet_counter, secret) ==
    [sender_state        |-> SenderStateNew(ratchet_counter, secret),
     ratchet_frame       |-> 0,
     old_secret          |-> secret,
     old_ratchet_counter |-> ratchet_counter]

\* k HKDF ratchet expansions in a row
HkdfRatchetTimes(secret, k) == [secret EXCEPT !.n = @ + k]

\* the while loop of try_advance_ratchet making one pass at most
RatchetWalkOnce(cur, secret, ratchet_counter_goal) ==
    IF cur = ratchet_counter_goal THEN secret ELSE HkdfRatchet(secret)

\* the while loop of try_advance_ratchet.  Each pass ratchets the secret
\* once and adds 1 (wrapping) to cur, and the loop ends when cur equals the
\* goal: it makes (goal - cur) mod 256 passes.  The result is given in this
\* closed form, which TLC evaluates without a 255-deep recursion.
RatchetWalk(cur, secret, ratchet_counter_goal) ==
    HkdfRatchetTimes(secret, WrappingSubU8(ratchet_counter_goal, cur))

\* try_advance_ratchet that starts from the current position for every frame
TryAdvanceRatchetFromCurrent(self, ratchet_counter_goal, frame_counter) ==
    LET sender == SenderStateNew(ratchet_counter_goal,
                                 RatchetWalk(self.sender_state.ratchet_counter,
                                             self.sender_state.current_secret,
                                             ratchet_counter_goal))
    IN  IF WrappingSubExceeds(frame_counter, self.ratchet_frame)
        THEN [sender_state        |-> sender,
              ratchet_frame       |-> frame_counter,
              old_secret          |-> self.sender_state.current_secret,
              old_ratchet_counter |-> self.sender_state.ratchet_counter]
        ELSE [sender_state        |-> sender,
              ratchet_frame       |-> frame_counter,
              old_secret          |-> self.old_secret,
              old_ratchet_counter |-> self.old_ratchet_counter]

\* try_advance_ratchet keeping the largest frame counter seen as ratchet_frame
TryAdvanceRatchetMaxFrame(self, ratchet_counter_goal, frame_counter) ==
    LET fromCurrent == frame_counter > self.ratchet_frame
        cur    == IF fromCurrent THEN self.sender_state.ratchet_counter
                                 ELSE self.old_ratchet_counter
        secret == IF fromCurrent THEN self.sender_state.current_secret
                                 ELSE self.old_secret
        sender == SenderStateNew(ratchet_counter_goal,
                                 RatchetWalk(cur, secret, ratchet_counter_goal))
        frame  == IF fromCurrent THEN frame_counter ELSE self.ratchet_frame
    IN  IF WrappingSubExceeds(frame_counter, self.ratchet_frame)
        THEN [sender_state        |-> sender,
              ratchet_frame       |-> frame,
              old_secret          |-> self.sender_state.current_secret,
              old_ratchet_counter |-> self.sender_state.ratchet_counter]
        ELSE [sender_state        |-> sender,
              ratchet_frame       |-> frame,
              old_secret          |-> self.old_secret,
              old_ratchet_counter |-> self.old_ratchet_counter]

TryAdvanceRatchet(self, ratchet_counter_goal, frame_counter) ==
    LET fromCurrent == frame_counter > self.ratchet_frame
        cur    == IF fromCurrent THEN self.sender_state.ratchet_counter
                                 ELSE self.old_ratchet_counter
        secret == IF fromCurrent THEN self.sender_state.current_secret
                                 ELSE self.old_secret
        sender == SenderStateNew(ratchet_counter_goal,
                                 RatchetWalk(cur, secret, ratchet_counter_goal))
    IN  IF WrappingSubExceeds(frame_counter, self.ratchet_frame)
        THEN [sender_state        |-> sender,
              ratchet_frame       |-> frame_counter,
              old_secret          |-> self.sender_state.current_secret,
              old_ratchet_counter |-> self.sender_state.ratchet_counter]
        ELSE [sender_state        |-> sender,
              ratchet_frame       |-> frame_counter,
              old_secret          |-> self.old_secret,
              old_ratchet_counter |-> self.old_ratchet_counter]

\* limit_ooo that moves old_ratchet_counter and leaves old_secret as it was
LimitOooCounterOnly(self) ==
    LET distance == WrappingSubU8(self.sender_state.ratchet_counter,
                                  self.old_ratchet_counter)
        passes   == IF distance > MAX_OOO_RATCHETS
                    THEN distance - MAX_OOO_RATCHETS ELSE 0
    IN  [self EXCEPT
           !.old_ratchet_counter = (@ + passes) % RatchetCounterModulus]

\* limit_ooo.  Each pass of its loop ratchets old_secret once and adds 1
\* (wrapping) to old_ratchet_counter, which lowers the distance
\* sender_state.ratchet_counter - old_ratchet_counter (mod 256) by one; the
\* loop runs while the distance exceeds MAX_OOO_RATCHETS, that is
\* distance - MAX_OOO_RATCHETS times when it runs at all.
LimitOoo(self) ==
    LET distance == WrappingSubU8(self.sender_state.ratchet_counter,
                                  self.old_ratchet_counter)
        passes   == IF distance > MAX_OOO_RATCHETS
                    THEN distance - MAX_OOO_RATCHETS ELSE 0
    IN  [self EXCEPT
           !.old_secret = HkdfRatchetTimes(@, passes),
           !.old_ratchet_counter = (@ + passes) % RatchetCounterModulus]

\* ReceiverState::try_advance_ratchet and ReceiverState::limit_ooo run one
\* loop pass per step.  loop holds the call in progress: input is the state
\* try_advance_ratchet was called on, cur and secret are its local
\* variables, self is the state limit_ooo mutates, passes counts the passes
\* of the loop in progress and walked the passes the while loop of
\* try_advance_ratchet made.
NoLoop ==
    [fn |-> "none", input |-> 0, self |-> 0, goal |-> 0, frame_counter |-> 0,
     cur |-> 0, secret |-> 0, passes |-> 0, walked |-> 0]

\* entry of try_advance_ratchet: the choice of the start position
TryAdvanceRatchetEntry(self, ratchet_counter_goal, frame_counter) ==
    LET fromCurrent == frame_counter > self.ratchet_frame
    IN  [fn |-> "try_advance_ratchet", input |-> self, self |-> self,
         goal |-> ratchet_counter_goal, frame_counter |-> frame_counter,
         cur    |-> IF fromCurrent THEN self.sender_state.ratchet_counter
                                   ELSE self.old_ratchet_counter,
         secret |-> IF fromCurrent THEN self.sender_state.current_secret
                                   ELSE self.old_secret,
         passes |-> 0, walked |-> 0]

\* a pass of the while loop that adds 2 to cur
WalkPassByTwo ==
    /\ loop.fn = "try_advance_ratchet"
    /\ loop.cur # loop.goal
    /\ loop' = [loop EXCEPT !.secret = HkdfRatchet(@),
                            !.cur    = WrappingAdd1(WrappingAdd1(@)),
                            !.passes = @ + 1]
    /\ UNCHANGED <<contextVars, clientVars>>

\* one pass of the while loop of try_advance_ratchet
WalkPass ==
    /\ loop.fn = "try_advance_ratchet"
    /\ loop.cur # loop.goal
    /\ loop' = [loop EXCEPT !.secret = HkdfRatchet(@),
                            !.cur    = WrappingAdd1(@),
                            !.passes = @ + 1]
    /\ UNCHANGED <<contextVars, clientVars>>

\* the state returned when the frame distance is a signed difference
TryAdvanceRatchetResultSigned(l) ==
    LET sender == SenderStateNew(l.goal, l.secret)
    IN  IF l.frame_counter - l.input.ratchet_frame > MAX_OOO_FRAMES
        THEN [sender_state        |-> sender,
              ratchet_frame       |-> l.frame_counter,
              old_secret          |-> l.input.sender_state.current_secret,
              old_ratchet_counter |-> l.input.sender_state.ratchet_counter]
        ELSE [sender_state        |-> sender,
              ratchet_frame       |-> l.frame_counter,
              old_secret          |-> l.input.old_secret,
              old_ratchet_counter |-> l.input.old_ratchet_counter]

\* the state try_advance_ratchet returns once the loop has ended
TryAdvanceRatchetResult(l) ==
    LET sender == SenderStateNew(l.goal, l.secret)
    IN  IF WrappingSubExceeds(l.frame_counter, l.input.ratchet_frame)
        THEN [sender_state        |-> sender,
              ratchet_frame       |-> l.frame_counter,
              old_secret          |-> l.input.sender_state.current_secret,
              old_ratchet_counter |-> l.input.sender_state.ratchet_counter]
        ELSE [sender_state        |-> sender,
              ratchet_frame       |-> l.frame_counter,
              old_secret          |-> l.input.old_secret,
              old_ratchet_counter |-> l.input.old_ratchet_counter]

\* the loop of try_advance_ratchet ends, the state is built and, as in the
\* second loop of decrypt after a MAC match, limit_ooo is called on it
TryAdvanceRatchetReturn ==
    /\ loop.fn = "try_advance_ratchet"
    /\ loop.cur = loop.goal
    /\ loop' = [loop EXCEPT !.fn = "limit_ooo",
                            !.self = TryAdvanceRatchetResult(loop),
                            !.walked = loop.passes,
                            !.passes = 0]
    /\ UNCHANGED <<contextVars, clientVars>>

\* the loop condition of limit_ooo
LimitOooCondition(self) ==
    WrappingSubU8(self.sender_state.ratchet_counter, self.old_ratchet_counter)
        > MAX_OOO_RATCHETS

\* one pass of the while loop of limit_ooo
LimitOooPass ==
    /\ loop.fn = "limit_ooo"
    /\ LimitOooCondition(loop.self)
    /\ loop' = [loop EXCEPT !.self.old_secret = HkdfRatchet(@),
                            !.self.old_ratchet_counter = WrappingAdd1(@),
                            !.passes = @ + 1]
    /\ UNCHANGED <<contextVars, clientVars>>

\* limit_ooo returns
LimitOooReturn ==
    /\ loop.fn = "limit_ooo"
    /\ ~LimitOooCondition(loop.self)
    /\ loop' = [loop EXCEPT !.fn = "done"]
    /\ UNCHANGED <<contextVars, clientVars>>

\* check_mac comparing all of the MAC but one bit
CheckMacButOneBit(state, frame_counter, data, mac) ==
    ComputeMac(state.sender_state.current_hmac_key,
               ConvertFrameCounterToIv(frame_counter), data)
        = [mac EXCEPT !.flip = 0]

CheckMac(state, frame_counter, data, mac) ==
    ComputeMac(state.sender_state.current_hmac_key,
               ConvertFrameCounterToIv(frame_counter), data) = mac

\* decrypt_internal with the IV of frame counter 0
DecryptInternalZeroIv(state, frame_counter, data) ==
    ApplyKeystream(state.sender_state.current_aes_key,
                   ConvertFrameCounterToIv(0), data)

DecryptInternal(state, frame_counter, data) ==
    ApplyKeystream(state.sender_state.current_aes_key,
                   ConvertFrameCounterToIv(frame_counter), data)

----------------------------------------------------------------------------
\* Context

Ctxs == DOMAIN sender_state

\* Context::new
ContextNew(initial_send_secret) ==
    [sender_state        |-> SenderStateNew(0, initial_send_secret),
     next_frame_counter  |-> 1,
     remote_states_by_id |-> <<>>]

\* Context::send_state
SendState(c) ==
    <<sender_state[c].ratchet_counter, sender_state[c].current_secret>>

\* Context::get_mut_ref_state_vec_by_id: the map after entry().or_insert_with
\* get_mut_ref_state_vec_by_id handing out a map that holds the entry of
\* sender_id only
GetMutRefStateVecByIdAlone(map, sender_id) ==
    IF sender_id \in DOMAIN map
    THEN (sender_id :> map[sender_id])
    ELSE (sender_id :> <<>>)

GetMutRefStateVecById(map, sender_id) ==
    IF sender_id \in DOMAIN map THEN map ELSE map @@ (sender_id :> <<>>)

\* the sequence of sender_id in a map (empty when the id was never seen)
StatesIn(map, sender_id) ==
    IF sender_id \in DOMAIN map THEN map[sender_id] ELSE <<>>

\* the sequence of sender_id in context c
StatesOf(c, sender_id) == StatesIn(remote_states_by_id[c], sender_id)

MinOf(S) == CHOOSE x \in S : \A y \in S : x <= y

\* the first loop looking at the newest state of the sequence only
FastPathMatchHeadOnly(states, ratchet_counter, frame_counter, data, mac) ==
    LET hit == {i \in 1 .. MinOf({1, Len(states)}) :
                   /\ states[i].sender_state.ratchet_counter = ratchet_counter
                   /\ CheckMac(states[i], frame_counter, data, mac)}
    IN  IF hit = {} THEN 0 ELSE MinOf(hit)

\* first loop of decrypt: index of the first state with the wire's ratchet
\* counter that authenticates the frame, 0 when there is none
FastPathMatch(states, ratchet_counter, frame_counter, data, mac) ==
    LET hit == {i \in 1 .. Len(states) :
                   /\ states[i].sender_state.ratchet_counter = ratchet_counter
                   /\ CheckMac(states[i], frame_counter, data, mac)}
    IN  IF hit = {} THEN 0 ELSE MinOf(hit)

\* the second loop stopping at the last state whose tentative advanced
\* state authenticates the frame
CatchUpMatchLast(states, ratchet_counter, frame_counter, data, mac) ==
    LET hit == {i \in 1 .. Len(states) :
                   CheckMac(TryAdvanceRatchet(states[i], ratchet_counter,
                                              frame_counter),
                            frame_counter, data, mac)}
    IN  IF hit = {} THEN 0 ELSE CHOOSE x \in hit : \A y \in hit : x >= y

\* second loop of decrypt: index of the first state whose tentative
\* advanced state authenticates the frame, 0 when there is none
CatchUpMatch(states, ratchet_counter, frame_counter, data, mac) ==
    LET hit == {i \in 1 .. Len(states) :
                   CheckMac(TryAdvanceRatchet(states[i], ratchet_counter,
                                              frame_counter),
                            frame_counter, data, mac)}
    IN  IF hit = {} THEN 0 ELSE MinOf(hit)

\* the second loop committing the tentative state without limit_ooo
CatchUpCommitNoLimit(state, ratchet_counter, frame_counter) ==
    TryAdvanceRatchet(state, ratchet_counter, frame_counter)

\* the state committed by the second loop: limit_ooo on the tentative state
CatchUpCommit(state, ratchet_counter, frame_counter) ==
    LimitOoo(TryAdvanceRatchet(state, ratchet_counter, frame_counter))

\* decrypt storing each tentative state before its MAC is checked
DecryptCallStoreFirst(states, ratchet_counter, frame_counter, data, mac) ==
    LET a == FastPathMatch(states, ratchet_counter, frame_counter, data, mac)
        b == CatchUpMatch(states, ratchet_counter, frame_counter, data, mac)
        tried == [k \in 1 .. Len(states) |->
                    TryAdvanceRatchet(states[k], ratchet_counter, frame_counter)]
        committed == CatchUpCommit(states[b], ratchet_counter, frame_counter)
    IN  IF a # 0
        THEN [result |-> "Ok", states |-> states, phase |-> "A",
              data |-> DecryptInternal(states[a], frame_counter, data)]
        ELSE IF b # 0
        THEN [result |-> "Ok",
              states |-> [k \in 1 .. Len(states) |->
                            IF k < b THEN tried[k]
                            ELSE IF k = b THEN committed ELSE states[k]],
              phase |-> "B",
              data |-> DecryptInternal(committed, frame_counter, data)]
        ELSE [result |-> "NoMatchingReceiverState", states |-> tried,
              phase |-> "none", data |-> data]

\* decrypt that refuses a frame older than the newest frame the head state
\* was advanced for
DecryptCallNoLate(states, ratchet_counter, frame_counter, data, mac) ==
    LET a == FastPathMatch(states, ratchet_counter, frame_counter, data, mac)
        b == CatchUpMatch(states, ratchet_counter, frame_counter, data, mac)
        committed == CatchUpCommit(states[b], ratchet_counter, frame_counter)
    IN  IF Len(states) > 0 /\ frame_counter < states[1].ratchet_frame
        THEN [result |-> "NoMatchingReceiverState", states |-> states,
              phase |-> "none", data |-> data]
        ELSE IF a # 0
        THEN [result |-> "Ok", states |-> states, phase |-> "A",
              data |-> DecryptInternal(states[a], frame_counter, data)]
        ELSE IF b # 0
        THEN [result |-> "Ok", states |-> [states EXCEPT ![b] = committed],
              phase |-> "B",
              data |-> DecryptInternal(committed, frame_counter, data)]
        ELSE [result |-> "NoMatchingReceiverState", states |-> states,
              phase |-> "none", data |-> data]

\* decrypt refusing a frame counter that is not beyond the ratchet_frame of
\* the newest state
DecryptCallNoReplay(states, ratchet_counter, frame_counter, data, mac) ==
    LET a == FastPathMatch(states, ratchet_counter, frame_counter, data, mac)
        b == CatchUpMatch(states, ratchet_counter, frame_counter, data, mac)
        committed == CatchUpCommit(states[b], ratchet_counter, frame_counter)
    IN  IF Len(states) > 0 /\ frame_counter <= states[1].ratchet_frame
        THEN [result |-> "NoMatchingReceiverState", states |-> states,
              phase |-> "none", data |-> data]
        ELSE IF a # 0
        THEN [result |-> "Ok", states |-> states, phase |-> "A",
              data |-> DecryptInternal(states[a], frame_counter, data)]
        ELSE IF b # 0
        THEN [result |-> "Ok", states |-> [states EXCEPT ![b] = committed],
              phase |-> "B",
              data |-> DecryptInternal(committed, frame_counter, data)]
        ELSE [result |-> "NoMatchingReceiverState", states |-> states,
              phase |-> "none", data |-> data]

\* decrypt trying the catch-up loop before the loop of cheap checks
DecryptCallCatchUpFirst(states, ratchet_counter, frame_counter, data, mac) ==
    LET a == FastPathMatch(states, ratchet_counter, frame_counter, data, mac)
        b == CatchUpMatch(states, ratchet_counter, frame_counter, data, mac)
        committed == CatchUpCommit(states[b], ratchet_counter, frame_counter)
    IN  IF b # 0
        THEN [result |-> "Ok", states |-> [states EXCEPT ![b] = committed],
              phase |-> "B",
              data |-> DecryptInternal(committed, frame_counter, data)]
        ELSE IF a # 0
        THEN [result |-> "Ok", states |-> states, phase |-> "A",
              data |-> DecryptInternal(states[a], frame_counter, data)]
        ELSE [result |-> "NoMatchingReceiverState", states |-> states,
              phase |-> "none", data |-> data]

\* Context::decrypt on the sequence of one sender: the return value, the
\* sequence and the buffer after the call
DecryptCall(states, ratchet_counter, frame_counter, data, mac) ==
    LET a == FastPathMatch(states, ratchet_counter, frame_counter, data, mac)
        b == CatchUpMatch(states, ratchet_counter, frame_counter, data, mac)
        committed == CatchUpCommit(states[b], ratchet_counter, frame_counter)
    IN  IF a # 0
        THEN [result |-> "Ok", states |-> states, phase |-> "A",
              data |-> DecryptInternal(states[a], frame_counter, data)]
        ELSE IF b # 0
        THEN [result |-> "Ok", states |-> [states EXCEPT ![b] = committed],
              phase |-> "B",
              data |-> DecryptInternal(committed, frame_counter, data)]
        ELSE [result |-> "NoMatchingReceiverState", states |-> states,
              phase |-> "none", data |-> data]

\* add_receive_secret dropping the head of a full sequence
PushReceiverStateDropHead(states, ratchet_counter, secret) ==
    LET kept == IF Len(states) = MAX_RECEIVER_STATES_TO_RETAIN
                THEN Tail(states)
                ELSE states
    IN  <<ReceiverStateNew(ratchet_counter, secret)>> \o kept

\* add_receive_secret putting the new state behind the states it keeps
PushReceiverStateAtTail(states, ratchet_counter, secret) ==
    LET kept == IF Len(states) = MAX_RECEIVER_STATES_TO_RETAIN
                THEN SubSeq(states, 1, Len(states) - 1)
                ELSE states
    IN  kept \o <<ReceiverStateNew(ratchet_counter, secret)>>

\* add_receive_secret that never drops a state
PushReceiverStateKeepAll(states, ratchet_counter, secret) ==
    <<ReceiverStateNew(ratchet_counter, secret)>> \o states

\* Vec::pop when full, then Vec::insert(0, ...)
PushReceiverState(states, ratchet_counter, secret) ==
    LET kept == IF Len(states) = MAX_RECEIVER_STATES_TO_RETAIN
                THEN SubSeq(states, 1, Len(states) - 1)
                ELSE states
    IN  <<ReceiverStateNew(ratchet_counter, secret)>> \o kept

----------------------------------------------------------------------------
\* What travels between contexts

\* the frame a caller hands to decrypt is wire[i] as sent ("none"), or
\* wire[i] with a bit of the MAC flipped ("mac") or with the next ratchet
\* counter in its header ("rc")
TamperKinds == {"none", "mac", "rc"}

Tampered(f, t) ==
    [ratchet_counter |-> IF t = "rc" THEN WrappingAdd1(f.ratchet_counter)
                                     ELSE f.ratchet_counter,
     frame_counter   |-> f.frame_counter,
     data            |-> f.data,
     mac             |-> IF t = "mac" THEN [f.mac EXCEPT !.flip = 1]
                                      ELSE f.mac]

NoCall == [op |-> "new", ctx |-> 0, sender_id |-> 0, frame |-> 0,
           tamper |-> "none", result |-> "none", value |-> <<>>,
           data |-> Buffer(<<>>), phase |-> "none"]

----------------------------------------------------------------------------
\* DelegatingClient (src/rust/src/lite/http.rs)

\* threads calling the DelegatingClient
Threads == {1, 2}

\* a u32 as its two 16-bit halves <<high, low>>
HalfModulus == 65536

U32Zero == <<0, 0>>

\* u32::wrapping_add(1)
U32WrappingAdd1(x) ==
    IF x[2] = HalfModulus - 1
    THEN <<(x[1] + 1) % HalfModulus, 0>>
    ELSE <<x[1], x[2] + 1>>

\* ResponseCallbacks::default
ResponseCallbacksDefault ==
    [response_callback_by_request_id |-> <<>>, next_request_id |-> U32Zero]

\* a count that may pass 2^32, as <<multiples of 2^16, rest>>
CountZero == <<0, 0>>

CountSucc(n) ==
    IF n[2] = HalfModulus - 1 THEN <<n[1] + 1, 0>> ELSE <<n[1], n[2] + 1>>

CountAdd(n, k) ==
    <<n[1] + k[1] + ((n[2] + k[2]) \div HalfModulus), (n[2] + k[2]) % HalfModulus>>

CountLess(n, k) ==
    \/ n[1] < k[1]
    \/ n[1] = k[1] /\ n[2] < k[2]

\* Option::None for a ResponseCallback; a callback is named by the count of
\* send_request calls made before the call that passed it
NoCallback == <<>>

\* what the client did so far: calls counts the send_request calls
\* entered, pushes the ResponseCallbacks::push calls, given lists the pushes
\* made one by one (callback, request id, number of pushes before it), seen
\* is the set of request ids passed to Delegate::send_request, responses
\* counts the received_response calls entered, invoked lists
\* the callbacks run (with the id of the response, the thread and the locks
\* held at that moment), unknown lists the request ids of the responses
\* that found no callback, dropped is the set of callbacks replaced in the map unrun
NoHistory ==
    [calls |-> CountZero, pushes |-> CountZero, given |-> <<>>, seen |-> {},
     responses |-> 0, invoked |-> <<>>, unknown |-> <<>>, dropped |-> {}]

\* ResponseCallbacks::push: the ResponseCallbacks after the call and the
\* request id returned.  HashMap::insert replaces the value of a key that
\* is present.
ResponseCallbacksPush(self, response_callback) ==
    [callbacks |->
        [response_callback_by_request_id |->
            (self.next_request_id :> response_callback)
                @@ self.response_callback_by_request_id,
         next_request_id |-> U32WrappingAdd1(self.next_request_id)],
     request_id |-> self.next_request_id]

\* ResponseCallbacks::pop that returns the callback and leaves it in the map
ResponseCallbacksPopKeeping(self, request_id) ==
    LET map == self.response_callback_by_request_id
    IN  [callbacks |-> self,
         response_callback |-> IF request_id \in DOMAIN map THEN map[request_id]
                                                            ELSE NoCallback]

\* ResponseCallbacks::pop (HashMap::remove): the ResponseCallbacks after the
\* call and the callback returned, NoCallback when the id is absent
ResponseCallbacksPop(self, request_id) ==
    LET map == self.response_callback_by_request_id
    IN  [callbacks |->
            [self EXCEPT !.response_callback_by_request_id =
                [k \in DOMAIN map \ {request_id} |-> map[k]]],
         response_callback |-> IF request_id \in DOMAIN map THEN map[request_id]
                                                            ELSE NoCallback]

\* the call thread t is executing (the innermost one), and the stack of t
\* with that call replaced or ended
Top(t) == thread[t][1]

WithTop(t, frame) == [thread EXCEPT ![t] = <<frame>> \o Tail(@)]

Entered(t, frame) == [thread EXCEPT ![t] = <<frame>> \o @]

Returned(t) == [thread EXCEPT ![t] = Tail(@)]

\* thread t is at program point pc of function fn
At(t, fn, pc) ==
    /\ thread[t] # <<>>
    /\ Top(t).fn = fn
    /\ Top(t).pc = pc

\* a thread calls Client::send_request with a new callback
CallSendRequest(t) ==
    /\ thread[t] = <<>>
    /\ thread' = Entered(t, [fn |-> "send_request", pc |-> "lock_callbacks",
                             request_id |-> U32Zero,
                             callback |-> history.calls])
    /\ history' = [history EXCEPT !.calls = CountSucc(@)]
    /\ UNCHANGED <<response_callbacks, locks>>
    /\ UNCHANGED <<contextVars, loop>>

\* send_request: self.response_callbacks.lock()
SendLockCallbacks(t) ==
    /\ At(t, "send_request", "lock_callbacks")
    /\ locks.response_callbacks = 0
    /\ locks' = [locks EXCEPT !.response_callbacks = t]
    /\ thread' = WithTop(t, [Top(t) EXCEPT !.pc = "push"])
    /\ UNCHANGED <<response_callbacks, history>>
    /\ UNCHANGED <<contextVars, loop>>

\* send_request keeping the response_callbacks lock until it returns
SendPushHoldingLock(t) ==
    LET pushed == ResponseCallbacksPush(response_callbacks, Top(t).callback)
    IN  /\ At(t, "send_request", "push")
        /\ response_callbacks' = pushed.callbacks
        /\ locks' = locks
        /\ thread' = WithTop(t, [Top(t) EXCEPT !.pc = "lock_delegate",
                                               !.request_id = pushed.request_id])
        /\ history' =
              [history EXCEPT
                 !.pushes = CountSucc(@),
                 !.given = Append(@, [callback |-> Top(t).callback,
                                      request_id |-> pushed.request_id,
                                      ordinal |-> history.pushes]),
                 !.dropped =
                    IF pushed.request_id \in
                          DOMAIN response_callbacks.response_callback_by_request_id
                    THEN @ \cup {response_callbacks.response_callback_by_request_id[
                                     pushed.request_id]}
                    ELSE @]
        /\ UNCHANGED <<contextVars, loop>>

\* send_request: response_callbacks.push(response_callback), and the guard
\* of the lock goes out of scope at the end of the block
SendPush(t) ==
    LET pushed == ResponseCallbacksPush(response_callbacks, Top(t).callback)
    IN  /\ At(t, "send_request", "push")
        /\ response_callbacks' = pushed.callbacks
        /\ locks' = [locks EXCEPT !.response_callbacks = 0]
        /\ thread' = WithTop(t, [Top(t) EXCEPT !.pc = "lock_delegate",
                                               !.request_id = pushed.request_id])
        /\ history' =
              [history EXCEPT
                 !.pushes = CountSucc(@),
                 !.given = Append(@, [callback |-> Top(t).callback,
                                      request_id |-> pushed.request_id,
                                      ordinal |-> history.pushes]),
                 !.dropped =
                    IF pushed.request_id \in
                          DOMAIN response_callbacks.response_callback_by_request_id
                    THEN @ \cup {response_callbacks.response_callback_by_request_id[
                                     pushed.request_id]}
                    ELSE @]
        /\ UNCHANGED <<contextVars, loop>>

\* send_request: self.delegate.lock()
SendLockDelegate(t) ==
    /\ At(t, "send_request", "lock_delegate")
    /\ locks.delegate = 0
    /\ locks' = [locks EXCEPT !.delegate = t]
    /\ thread' = WithTop(t, [Top(t) EXCEPT !.pc = "delegate"])
    /\ UNCHANGED <<response_callbacks, history>>
    /\ UNCHANGED <<contextVars, loop>>

\* send_request: delegate.send_request(request_id, request) is entered:
\* the delegate sees the request id
DelegateSendRequest(t) ==
    /\ At(t, "send_request", "delegate")
    /\ history' = [history EXCEPT !.seen = @ \cup {Top(t).request_id}]
    /\ thread' = WithTop(t, [Top(t) EXCEPT !.pc = "in_delegate"])
    /\ UNCHANGED <<response_callbacks, locks>>
    /\ UNCHANGED <<contextVars, loop>>

\* Delegate::send_request returns and send_request with it: the guard of
\* the delegate lock is dropped
SendReturn(t) ==
    /\ At(t, "send_request", "in_delegate")
    /\ locks' = [locks EXCEPT !.delegate = 0]
    /\ thread' = Returned(t)
    /\ UNCHANGED <<response_callbacks, history>>
    /\ UNCHANGED <<contextVars, loop>>

\* received_response(request_id, response) is called: by a thread that is
\* in no call, or by the delegate from inside Delegate::send_request
CallReceivedResponse(t, request_id) ==
    /\ \/ thread[t] = <<>>
       \/ At(t, "send_request", "in_delegate")
    /\ thread' = Entered(t, [fn |-> "received_response", pc |-> "lock_callbacks",
                             request_id |-> request_id,
                             callback |-> NoCallback])
    /\ history' = [history EXCEPT !.responses = @ + 1]
    /\ UNCHANGED <<response_callbacks, locks>>
    /\ UNCHANGED <<contextVars, loop>>

\* received_response: self.response_callbacks.lock()
ReceivedLockCallbacks(t) ==
    /\ At(t, "received_response", "lock_callbacks")
    /\ locks.response_callbacks = 0
    /\ locks' = [locks EXCEPT !.response_callbacks = t]
    /\ thread' = WithTop(t, [Top(t) EXCEPT !.pc = "pop"])
    /\ UNCHANGED <<response_callbacks, history>>
    /\ UNCHANGED <<contextVars, loop>>

\* received_response: response_callbacks.pop(request_id), and the guard of
\* the lock goes out of scope at the end of the block
ReceivedPop(t) ==
    LET popped == ResponseCallbacksPop(response_callbacks, Top(t).request_id)
    IN  /\ At(t, "received_response", "pop")
        /\ response_callbacks' = popped.callbacks
        /\ locks' = [locks EXCEPT !.response_callbacks = 0]
        /\ thread' = WithTop(t, [Top(t) EXCEPT !.pc = "call",
                                               !.callback = popped.response_callback])
        /\ UNCHANGED history
        /\ UNCHANGED <<contextVars, loop>>

\* received_response: the callback is run when pop returned one, the
\* unknown request id is logged otherwise; then the function returns
ReceivedCall(t) ==
    /\ At(t, "received_response", "call")
    /\ history' =
          IF Top(t).callback # NoCallback
          THEN [history EXCEPT
                  !.invoked = Append(@, [callback |-> Top(t).callback,
                                         request_id |-> Top(t).request_id,
                                         thread |-> t, locks |-> locks])]
          ELSE [history EXCEPT !.unknown = Append(@, Top(t).request_id)]
    /\ thread' = Returned(t)
    /\ UNCHANGED <<response_callbacks, locks>>
    /\ UNCHANGED <<contextVars, loop>>

\* the steps of the calls in progress on thread t
ThreadStep(t) ==
    \/ SendLockCallbacks(t)
    \/ SendPush(t)
    \/ SendLockDelegate(t)
    \/ DelegateSendRequest(t)
    \/ SendReturn(t)
    \/ ReceivedLockCallbacks(t)
    \/ ReceivedPop(t)
    \/ ReceivedCall(t)

\* the number of send_request calls of one run of requests: 2^32 - 2
RunLength == <<HalfModulus - 1, HalfModulus - 2>>

\* a run of RunLength send_request calls made one after the other while no
\* other call is in progress, each answered by a received_response with
\* its request id before the next one is made: every push of the run hands
\* out next_request_id and steps it by one, every pop of the run removes
\* the entry that push inserted, so at the end the map is what it was and
\* next_request_id is RunLength further.  The run stays below 2^32 and
\* above the ids that are pending, so none of its pushes meets a key that
\* is present.  The calls of the run are counted in calls and pushes and
\* are not listed one by one in given, seen and invoked.
RequestRun ==
    LET next == CountAdd(response_callbacks.next_request_id, RunLength)
    IN  /\ \A t \in Threads : thread[t] = <<>>
        /\ locks = [response_callbacks |-> 0, delegate |-> 0]
        /\ CountLess(next, <<HalfModulus, 0>>)
        /\ \A id \in DOMAIN response_callbacks.response_callback_by_request_id :
              CountLess(id, response_callbacks.next_request_id)
        /\ response_callbacks' = [response_callbacks EXCEPT !.next_request_id = next]
        /\ history' = [history EXCEPT !.calls  = CountAdd(@, RunLength),
                                      !.pushes = CountAdd(@, RunLength)]
        /\ UNCHANGED <<locks, thread>>
        /\ UNCHANGED <<contextVars, loop>>

----------------------------------------------------------------------------
\* Operations of Context

\* encrypt taking the frame counter but returning an error for an empty buffer
EncryptRejectsEmpty(c, p) ==
    LET frame_counter == next_frame_counter[c]
        iv   == ConvertFrameCounterToIv(frame_counter)
        data == ApplyKeystream(sender_state[c].current_aes_key, iv, Buffer(p))
        mac  == ComputeMac(sender_state[c].current_hmac_key, iv, data)
    IN  /\ next_frame_counter' = [next_frame_counter EXCEPT ![c] = @ + 1]
        /\ wire' = IF p = <<>> THEN wire ELSE Append(wire,
               [from |-> c, plain |-> p,
                ratchet_counter |-> sender_state[c].ratchet_counter,
                frame_counter |-> frame_counter, data |-> data, mac |-> mac])
        /\ last' = [NoCall EXCEPT !.op = "encrypt", !.ctx = c,
                      !.frame = Len(wire) + 1,
                      !.result = IF p = <<>> THEN "Err" ELSE "Ok",
                      !.value = IF p = <<>> THEN <<>>
                                ELSE <<sender_state[c].ratchet_counter, frame_counter>>,
                      !.data = data]
        /\ UNCHANGED <<sender_state, remote_states_by_id, added, outcome>>
        /\ UNCHANGED <<loop, clientVars>>

Encrypt(c, p) ==
    LET frame_counter == next_frame_counter[c]
        iv   == ConvertFrameCounterToIv(frame_counter)
        data == ApplyKeystream(sender_state[c].current_aes_key, iv, Buffer(p))
        mac  == ComputeMac(sender_state[c].current_hmac_key, iv, data)
    IN  /\ next_frame_counter' = [next_frame_counter EXCEPT ![c] = @ + 1]
        /\ wire' = Append(wire,
               [from |-> c, plain |-> p,
                ratchet_counter |-> sender_state[c].ratchet_counter,
                frame_counter |-> frame_counter, data |-> data, mac |-> mac])
        /\ last' = [NoCall EXCEPT !.op = "encrypt", !.ctx = c,
                      !.frame = Len(wire) + 1, !.result = "Ok",
                      !.value = <<sender_state[c].ratchet_counter, frame_counter>>,
                      !.data = data]
        /\ UNCHANGED <<sender_state, remote_states_by_id, added, outcome>>
        /\ UNCHANGED <<loop, clientVars>>

\* Context::decrypt of wire[i], altered by t, in context c
DecryptEffect(c, sender_id, i, t) ==
    LET f   == Tampered(wire[i], t)
        map == GetMutRefStateVecById(remote_states_by_id[c], sender_id)
        r   == DecryptCall(map[sender_id], f.ratchet_counter, f.frame_counter,
                           f.data, f.mac)
    IN  /\ remote_states_by_id' =
               [remote_states_by_id EXCEPT
                   ![c] = [map EXCEPT ![sender_id] = r.states]]
        /\ last' = [NoCall EXCEPT !.op = "decrypt", !.ctx = c,
                      !.sender_id = sender_id, !.frame = i, !.tamper = t,
                      !.result = r.result, !.data = r.data, !.phase = r.phase]
        /\ UNCHANGED <<sender_state, next_frame_counter, wire, added>>
        /\ UNCHANGED <<loop, clientVars>>

\* a decrypt call on any frame of the wire, altered or not
Decrypt(c, sender_id, i, t) ==
    /\ DecryptEffect(c, sender_id, i, t)
    /\ UNCHANGED outcome

\* a decrypt call on a frame as it was sent, its result recorded per frame
Deliver(c, sender_id, i) ==
    /\ DecryptEffect(c, sender_id, i, "none")
    /\ outcome' = [outcome EXCEPT ![c] = (i :> last'.result) @@ @]

AdvanceSendRatchet(c) ==
    /\ sender_state' = [sender_state EXCEPT ![c] = MutAdvanceRatchet(@)]
    /\ last' = [NoCall EXCEPT !.op = "advance_send_ratchet", !.ctx = c,
                  !.value = <<sender_state'[c].ratchet_counter,
                              sender_state'[c].current_secret>>]
    /\ UNCHANGED <<next_frame_counter, remote_states_by_id, wire, added, outcome>>
    /\ UNCHANGED <<loop, clientVars>>

\* reset_send_ratchet that changes the secret and keeps the ratchet counter
ResetSendRatchetKeepCounter(c, secret) ==
    /\ sender_state' = [sender_state EXCEPT
                            ![c] = SenderStateNew(@.ratchet_counter, secret)]
    /\ last' = [NoCall EXCEPT !.op = "reset_send_ratchet", !.ctx = c,
                  !.value = <<secret>>]
    /\ UNCHANGED <<next_frame_counter, remote_states_by_id, wire, added, outcome>>
    /\ UNCHANGED <<loop, clientVars>>

\* reset_send_ratchet that also restarts the frame counter
ResetSendRatchetAndCounter(c, secret) ==
    /\ sender_state' = [sender_state EXCEPT ![c] = SenderStateNew(0, secret)]
    /\ next_frame_counter' = [next_frame_counter EXCEPT ![c] = 1]
    /\ last' = [NoCall EXCEPT !.op = "reset_send_ratchet", !.ctx = c,
                  !.value = <<secret>>]
    /\ UNCHANGED <<remote_states_by_id, wire, added, outcome>>
    /\ UNCHANGED <<loop, clientVars>>

ResetSendRatchet(c, secret) ==
    /\ sender_state' = [sender_state EXCEPT ![c] = SenderStateNew(0, secret)]
    /\ last' = [NoCall EXCEPT !.op = "reset_send_ratchet", !.ctx = c,
                  !.value = <<secret>>]
    /\ UNCHANGED <<next_frame_counter, remote_states_by_id, wire, added, outcome>>
    /\ UNCHANGED <<loop, clientVars>>

AddReceiveSecret(c, sender_id, ratchet_counter, secret) ==
    LET map == GetMutRefStateVecById(remote_states_by_id[c], sender_id)
    IN  /\ remote_states_by_id' =
               [remote_states_by_id EXCEPT
                   ![c] = [map EXCEPT ![sender_id] =
                             PushReceiverState(@, ratchet_counter, secret)]]
        /\ added' = [added EXCEPT ![c][sender_id] =
                       Append(@, <<ratchet_counter, secret>>)]
        /\ last' = [NoCall EXCEPT !.op = "add_receive_secret", !.ctx = c,
                      !.sender_id = sender_id]
        /\ UNCHANGED <<sender_state, next_frame_counter, wire, outcome>>
        /\ UNCHANGED <<loop, clientVars>>

----------------------------------------------------------------------------
\* Spec: one Context used as sender and receiver, every call free

\* what the signaling layer can hand to add_receive_secret: a fresh root
\* secret at counter 0, or the send_state() of a context
\* DelegatingClient::new: no callback registered, both locks free
ClientNew ==
    /\ response_callbacks = ResponseCallbacksDefault
    /\ locks = [response_callbacks |-> 0, delegate |-> 0]
    /\ thread = [t \in Threads |-> <<>>]
    /\ history = NoHistory

Announced ==
    {<<0, Root(s)>> : s \in Secrets} \cup {SendState(d) : d \in Ctxs}

RECURSIVE SumLen(_, _)
SumLen(f, ids) ==
    IF ids = {} THEN 0
    ELSE LET id == CHOOSE x \in ids : TRUE
         IN  Len(f[id]) + SumLen(f, ids \ {id})

\* add_receive_secret calls made on context c so far
AddCalls(c) == SumLen(added[c], SenderIds)

\* contexts ctxs after Context::new; context c is created from root secret c
\* (root secrets are interchangeable names: any other choice is a renaming),
\* and a reset_send_ratchet of context c is given a root secret other than c
ContextsNew(ctxs) ==
    /\ sender_state = [c \in ctxs |-> ContextNew(Root(c)).sender_state]
    /\ next_frame_counter = [c \in ctxs |-> ContextNew(Root(c)).next_frame_counter]
    /\ remote_states_by_id = [c \in ctxs |-> ContextNew(Root(c)).remote_states_by_id]
    /\ wire = <<>>
    /\ last = NoCall
    /\ added = [c \in ctxs |-> [id \in SenderIds |-> <<>>]]
    /\ outcome = [c \in ctxs |-> <<>>]

\* the Contexts of ctxs after Context::new, no other call in progress
InitOf(ctxs) ==
    /\ ContextsNew(ctxs)
    /\ loop = NoLoop
    /\ ClientNew

Init == InitOf({1})

Next ==
    \/ \E c \in Ctxs, p \in Plaintexts :
          /\ Len(wire) < MaxFrames
          /\ Encrypt(c, p)
    \/ \E c \in Ctxs, id \in SenderIds, i \in 1 .. Len(wire), t \in TamperKinds :
          Decrypt(c, id, i, t)
    \/ \E c \in Ctxs :
          /\ sender_state[c].current_secret.n < MaxAdvance
          /\ AdvanceSendRatchet(c)
    \/ \E c \in Ctxs :
          \E s \in Secrets \ {c} :
             ResetSendRatchet(c, Root(s))
    \/ \E c \in Ctxs, id \in SenderIds, a \in Announced :
          /\ AddCalls(c) < MaxAdds
          /\ AddReceiveSecret(c, id, a[1], a[2])

Spec == Init /\ [][Next]_vars

----------------------------------------------------------------------------
\* SpecChain: context 1 sends along one ratchet chain and context 2
\* receives.  The receiver registers the sender's send_state() once, at any
\* point of the chain, and is then handed the frames of the wire one time
\* each, in any order.

\* encrypt calls in one behaviour of SpecChain
MaxFramesChain == 2

\* single advance_send_ratchet steps on either side of the long run
MaxAdvanceChain == 6

\* a run of advance_send_ratchet calls that brings the u8 ratchet counter
\* back to within MaxAdvanceChain of the value it started from
AdvanceRun == RatchetCounterModulus - MaxAdvanceChain

\* k advance_send_ratchet calls in a row with no other call between them,
\* as the loop of test_advance_ratchet_equal_sender_states makes; the value
\* recorded is the return value of the last of them.  k passes of
\* mut_advance_ratchet ratchet the secret k times, re-derive both keys from
\* it and add k (wrapping) to the counter.
AdvanceSendRatchetTimes(c, k) ==
    /\ sender_state' =
           [sender_state EXCEPT ![c] =
               SenderStateNew((@.ratchet_counter + k) % RatchetCounterModulus,
                              HkdfRatchetTimes(@.current_secret, k))]
    /\ last' = [NoCall EXCEPT !.op = "advance_send_ratchet", !.ctx = c,
                  !.value = <<sender_state'[c].ratchet_counter,
                              sender_state'[c].current_secret>>]
    /\ UNCHANGED <<next_frame_counter, remote_states_by_id, wire, added, outcome>>
    /\ UNCHANGED <<loop, clientVars>>

\* number of advance_send_ratchet calls context c made since Context::new
ChainLength(c) == sender_state[c].current_secret.n

InitChain == InitOf({1, 2})

\* the sender's calls, and the receiver's registration
ChainSend ==
    \/ /\ Len(wire) < MaxFramesChain
       /\ Encrypt(1, <<7>>)
    \/ /\ \/ ChainLength(1) < MaxAdvanceChain
          \/ /\ ChainLength(1) >= AdvanceRun
             /\ ChainLength(1) < AdvanceRun + MaxAdvanceChain
       /\ AdvanceSendRatchet(1)
    \/ /\ ChainLength(1) < AdvanceRun
       /\ AdvanceSendRatchetTimes(1, AdvanceRun)
    \/ /\ added[2][1] = <<>>
       /\ AddReceiveSecret(2, 1, SendState(1)[1], SendState(1)[2])

NextChain ==
    \/ ChainSend
    \/ \E i \in 1 .. Len(wire) :
          /\ added[2][1] # <<>>
          /\ i \notin DOMAIN outcome[2]
          /\ Deliver(2, 1, i)

SpecChain == InitChain /\ [][NextChain]_vars

----------------------------------------------------------------------------
\* SpecInOrder: as SpecChain, with the frames handed to the receiver in
\* increasing frame counter order (a frame may be skipped, none comes late)

NextInOrder ==
    \/ ChainSend
    \/ \E i \in 1 .. Len(wire) :
          /\ added[2][1] # <<>>
          /\ \A j \in DOMAIN outcome[2] : j < i
          /\ Deliver(2, 1, i)

SpecInOrder == InitChain /\ [][NextInOrder]_vars

----------------------------------------------------------------------------
\* SpecRetain: one context that registers receive secrets for one sender
\* id past the retention limit - its own send_state() or the initial secret
\* of another sender - and decrypts its own frames in between

\* add_receive_secret calls for the sender id in one behaviour of SpecRetain
MaxAddsRetain == 6

\* encrypt calls in one behaviour of SpecRetain
MaxFramesRetain == 1

\* advance_send_ratchet calls in one behaviour of SpecRetain
MaxAdvanceRetain == 1

InitRetain == InitOf({1})

NextRetain ==
    \/ \E a \in {<<0, Root(2)>>, SendState(1)} :
          /\ Len(added[1][1]) < MaxAddsRetain
          /\ AddReceiveSecret(1, 1, a[1], a[2])
    \/ /\ Len(wire) < MaxFramesRetain
       /\ Encrypt(1, <<7>>)
    \/ /\ ChainLength(1) < MaxAdvanceRetain
       /\ AdvanceSendRatchet(1)
    \/ \E i \in 1 .. Len(wire) :
          Decrypt(1, 1, i, "none")

SpecRetain == InitRetain /\ [][NextRetain]_vars

----------------------------------------------------------------------------
\* SpecSender: one context, created from any root secret, that advances its
\* send ratchet one call at a time, once around the u8 ratchet counter, and
\* may register its own initial secret as a receive secret

\* advance_send_ratchet calls in one behaviour of SpecSender
MaxAdvanceSender == 256

\* the secret the context of c was created from or last reset to
InitialSecret(c) == Root(sender_state[c].current_secret.root)

InitSender ==
    \E s \in Secrets :
        /\ sender_state = [c \in {1} |-> ContextNew(Root(s)).sender_state]
        /\ next_frame_counter = [c \in {1} |-> ContextNew(Root(s)).next_frame_counter]
        /\ remote_states_by_id = [c \in {1} |-> ContextNew(Root(s)).remote_states_by_id]
        /\ wire = <<>>
        /\ last = NoCall
        /\ added = [c \in {1} |-> [id \in SenderIds |-> <<>>]]
        /\ outcome = [c \in {1} |-> <<>>]
        /\ loop = NoLoop
        /\ ClientNew

NextSender ==
    \/ /\ ChainLength(1) < MaxAdvanceSender
       /\ AdvanceSendRatchet(1)
    \/ /\ added[1][1] = <<>>
       /\ AddReceiveSecret(1, 1, 0, InitialSecret(1))

SpecSender == InitSender /\ [][NextSender]_vars

----------------------------------------------------------------------------
\* SpecRotate: one context that decrypts its own frames, as the contexts of
\* test_rotate_secret and test_ooo_ratchet do: it registers receive secrets
\* for sender id 1, encrypts, advances its send ratchet, and rotates to the
\* new secret Root(2)

\* encrypt calls in one behaviour of SpecRotate
MaxFramesRotate == 3

\* add_receive_secret calls in one behaviour of SpecRotate
MaxAddsRotate == 2

\* advance_send_ratchet calls on one send chain in SpecRotate
MaxAdvanceRotate == 1

InitRotate == InitOf({1})

NextRotate ==
    \/ /\ Len(wire) < MaxFramesRotate
       /\ Encrypt(1, <<7>>)
    \/ \E a \in Announced :
          /\ Len(added[1][1]) < MaxAddsRotate
          /\ AddReceiveSecret(1, 1, a[1], a[2])
    \/ ResetSendRatchet(1, Root(2))
    \/ /\ ChainLength(1) < MaxAdvanceRotate
       /\ AdvanceSendRatchet(1)
    \/ \E i \in 1 .. Len(wire) :
          Decrypt(1, 1, i, "none")

SpecRotate == InitRotate /\ [][NextRotate]_vars



----------------------------------------------------------------------------
\* SpecSound: one context that registers receive secrets for two sender
\* ids - for sender id 1 past the retention limit - and calls decrypt on
\* its own frames, altered or not, under either sender id; it may switch
\* to another send secret once, early in the run

\* add_receive_secret calls for sender id 1 in one behaviour of SpecSound
MaxAddsSound == 6

\* encrypt calls in one behaviour of SpecSound
MaxFramesSound == 1

\* advance_send_ratchet calls in one behaviour of SpecSound
MaxAdvanceSound == 1

InitSound == InitOf({1})

NextSound ==
    \/ \E a \in {<<0, Root(2)>>, SendState(1)} :
          /\ Len(added[1][1]) < MaxAddsSound
          /\ AddReceiveSecret(1, 1, a[1], a[2])
    \/ /\ added[1][2] = <<>>
       /\ AddReceiveSecret(1, 2, SendState(1)[1], SendState(1)[2])
    \/ /\ Len(wire) < MaxFramesSound
       /\ Encrypt(1, <<7>>)
    \/ /\ ChainLength(1) < MaxAdvanceSound
       /\ AdvanceSendRatchet(1)
    \/ /\ sender_state[1].current_secret.root # 2
       /\ Len(added[1][1]) <= 1
       /\ ResetSendRatchet(1, Root(2))
    \/ \E id \in SenderIds : \E i \in 1 .. Len(wire) : \E t \in TamperKinds :
          Decrypt(1, id, i, t)

SpecSound == InitSound /\ [][NextSound]_vars


----------------------------------------------------------------------------
\* SpecClient: two threads call send_request and received_response on one
\* DelegatingClient in any interleaving; a response carries a request id
\* the delegate has seen or an id that was never given out, and the
\* delegate may also respond from inside Delegate::send_request

\* send_request calls in one behaviour of SpecClient
MaxSends == 2

\* received_response calls in one behaviour of SpecClient
MaxResponses == 3

\* a request id the runs of the model never give out
UnknownId == <<1, 0>>

\* the request ids a response may carry
ResponseIds == history.seen \cup {UnknownId}

InitClient == InitOf({1})

NextClient ==
    \E t \in Threads :
        \/ /\ CountLess(history.calls, <<0, MaxSends>>)
           /\ CallSendRequest(t)
        \/ \E request_id \in ResponseIds :
              /\ history.responses < MaxResponses
              /\ CallReceivedResponse(t, request_id)
        \/ ThreadStep(t)

SpecClient == InitClient /\ [][NextClient]_vars

----------------------------------------------------------------------------
\* SpecClientWrap: SpecClient with a run of 2^32 - 2 answered requests
\* among the send_request calls, which brings next_request_id to the end
\* of the u32 range

\* send_request calls in one behaviour of SpecClientWrap, the run aside
MaxSendsWrap == 3

\* received_response calls in one behaviour of SpecClientWrap, the run aside
MaxResponsesWrap == 1

\* the send_request calls made one by one so far: those that pushed their
\* callback and those that are about to
SendsMade ==
    Len(history.given)
      + Cardinality({t \in Threads :
                        \/ At(t, "send_request", "lock_callbacks")
                        \/ At(t, "send_request", "push")})

NextClientWrap ==
    \/ RequestRun
    \/ \E t \in Threads :
          \/ /\ SendsMade < MaxSendsWrap
             /\ CallSendRequest(t)
          \/ \E request_id \in history.seen :
                /\ history.responses < MaxResponsesWrap
                /\ CallReceivedResponse(t, request_id)
          \/ ThreadStep(t)

SpecClientWrap == InitClient /\ [][NextClientWrap]_vars

----------------------------------------------------------------------------
\* SpecLoops: one call of try_advance_ratchet, followed by limit_ooo on
\* its result, run pass by pass from every ReceiverState of LoopInputs

\* ratchet counters of the current position of the state the call is made on
LoopStarts == 0 .. RatchetCounterModulus - 1

\* distances between the old and the current position of that state
OldDistances == {0, MAX_OOO_RATCHETS}

\* goal counters of the call
LoopGoals == {0, RatchetCounterModulus - 1}

\* frame counters of the call, for a state whose ratchet_frame is 1: a late
\* frame, the frame of ratchet_frame itself, the next one, and one more than
\* MAX_OOO_FRAMES ahead
LoopFrames == {0, 1, 2, MAX_OOO_FRAMES + 2}

\* a ReceiverState registered at counter a - d (mod 256) whose current
\* position was moved d steps forward by the frame with frame counter 1
LoopInput(a, d) ==
    [sender_state        |-> SenderStateNew(a, HkdfRatchetTimes(Root(1), d)),
     ratchet_frame       |-> 1,
     old_secret          |-> Root(1),
     old_ratchet_counter |-> WrappingSubU8(a, d)]

InitLoops ==
    /\ ContextsNew({1})
    /\ ClientNew
    /\ \E a \in LoopStarts : \E d \in OldDistances :
          \E goal \in LoopGoals : \E f \in LoopFrames :
             loop = TryAdvanceRatchetEntry(LoopInput(a, d), goal, f)

NextLoops ==
    \/ WalkPass
    \/ TryAdvanceRatchetReturn
    \/ LimitOooPass
    \/ LimitOooReturn

SpecLoops == InitLoops /\ [][NextLoops]_vars

----------------------------------------------------------------------------
\* Helpers of the properties

\* the calls that `last` can record as a decrypt of wire[i] by context c
IsDecrypt(l, c, sender_id, i, t) ==
    /\ l.op = "decrypt" /\ l.ctx = c /\ l.sender_id = sender_id
    /\ l.frame = i /\ l.tamper = t

\* the SenderState under which wire[i] was encrypted
FrameSenderState(i) ==
    SenderStateNew(wire[i].ratchet_counter, wire[i].mac.key[2])

----------------------------------------------------------------------------
\* C1.  Round trip: in a Context created from secret s in which
\* add_receive_secret(sender_id, 0, s) was called, so that the sequence of
\* sender_id holds ReceiverState::new(0, s), decrypting a frame that the
\* Context encrypted under SenderState::new(0, s), with the counters,
\* ciphertext and MAC encrypt produced, returns Ok and leaves the plaintext
\* in the buffer.
RoundTripCase(c, sender_id, i) ==
    /\ wire[i].from = c
    /\ \E s \in Secrets :
          /\ FrameSenderState(i) = SenderStateNew(0, Root(s))
          /\ \E k \in 1 .. Len(StatesOf(c, sender_id)) :
                StatesOf(c, sender_id)[k] = ReceiverStateNew(0, Root(s))

RoundTrip ==
    [][\A c \in Ctxs, id \in SenderIds, i \in 1 .. Len(wire) :
          (RoundTripCase(c, id, i) /\ IsDecrypt(last', c, id, i, "none"))
              => /\ last'.result = "Ok"
                 /\ last'.data = Buffer(wire[i].plain)]_vars

RoundTripWitness ==
    \E c \in Ctxs, id \in SenderIds, i \in 1 .. Len(wire) :
        /\ RoundTripCase(c, id, i)
        /\ IsDecrypt(last, c, id, i, "none")
        /\ last.result = "Ok"
        /\ wire[i].plain # <<>>
        /\ wire[i].data # Buffer(wire[i].plain)
        /\ last.data = Buffer(wire[i].plain)

----------------------------------------------------------------------------
\* C2.  Frame-counter monotonicity: the k-th encrypt call of a Context
\* returns frame counter k (the first returns 1, each later one the
\* previous plus 1), whatever calls were made in between, a
\* reset_send_ratchet included; so no two frames of a Context share a
\* frame counter.
FramesBefore(i) == {j \in 1 .. i : wire[j].from = wire[i].from}

FrameCounterMonotonic ==
    \A i \in 1 .. Len(wire) :
        wire[i].frame_counter = Cardinality(FramesBefore(i))

\* two frames of one Context with a reset_send_ratchet between them
FrameCounterWitness ==
    \E i, j \in 1 .. Len(wire) :
        /\ i < j
        /\ wire[i].from = wire[j].from
        /\ wire[i].mac.key[2].root # wire[j].mac.key[2].root
        /\ wire[i].ratchet_counter = 1
        /\ wire[j].frame_counter = wire[i].frame_counter + 1

----------------------------------------------------------------------------
\* C3.  A decrypt that returns NoMatchingReceiverState changes nothing: the
\* sender_state, the next_frame_counter and the ReceiverState sequence of
\* every sender id are as before the call (the only change of the map is
\* the empty sequence entered for a sender id seen for the first time), and
\* the buffer holds the ciphertext it was called with.
NoMatchLeavesState ==
    [][(last'.op = "decrypt" /\ last'.result = "NoMatchingReceiverState")
          => /\ sender_state' = sender_state
             /\ next_frame_counter' = next_frame_counter
             /\ \A c \in Ctxs :
                   /\ \A id \in SenderIds :
                         StatesIn(remote_states_by_id'[c], id) = StatesOf(c, id)
                   /\ DOMAIN remote_states_by_id'[c] =
                         DOMAIN remote_states_by_id[c]
                           \cup (IF c = last'.ctx THEN {last'.sender_id} ELSE {})
             /\ last'.data = Tampered(wire[last'.frame], last'.tamper).data]_vars

\* a rejected frame for which the catch-up loop built a tentative state
\* that differs from the stored one
NoMatchWitness ==
    /\ last.op = "decrypt"
    /\ last.result = "NoMatchingReceiverState"
    /\ \E k \in 1 .. Len(StatesOf(last.ctx, last.sender_id)) :
          LET f == Tampered(wire[last.frame], last.tamper)
              state == StatesOf(last.ctx, last.sender_id)[k]
          IN  TryAdvanceRatchet(state, f.ratchet_counter, f.frame_counter) # state

----------------------------------------------------------------------------
\* C4.  MAC tampering detection: a decrypt of a frame with a bit of its MAC
\* flipped returns NoMatchingReceiverState; and if the frame decrypted
\* before that attempt, then the decrypt of the frame with its MAC restored
\* still returns Ok and yields the plaintext after it.
Untampered(states, i) ==
    DecryptCall(states, wire[i].ratchet_counter, wire[i].frame_counter,
                wire[i].data, wire[i].mac)

MacTamperDetected ==
    [][\A c \in Ctxs, id \in SenderIds, i \in 1 .. Len(wire) :
          IsDecrypt(last', c, id, i, "mac")
              => /\ last'.result = "NoMatchingReceiverState"
                 /\ Untampered(StatesOf(c, id), i).result = "Ok"
                       => LET r == Untampered(StatesIn(remote_states_by_id'[c], id), i)
                          IN  /\ r.result = "Ok"
                              /\ r.data = Buffer(wire[i].plain)]_vars

\* a frame rejected for its MAC that decrypts with the MAC restored
MacTamperWitness ==
    \E c \in Ctxs, id \in SenderIds, i \in 1 .. Len(wire) :
        /\ IsDecrypt(last, c, id, i, "mac")
        /\ last.result = "NoMatchingReceiverState"
        /\ Untampered(StatesOf(c, id), i).result = "Ok"
        /\ Untampered(StatesOf(c, id), i).data = Buffer(wire[i].plain)

----------------------------------------------------------------------------
\* Helpers of the properties about one ratchet chain

MaxOf(S) == CHOOSE x \in S : \A y \in S : x >= y

\* the plaintext buffer a successful decrypt of wire[i] must leave
Plain(i) == Buffer(wire[i].plain)

\* number of ratchet steps between the root secret and the secret wire[i]
\* was encrypted under
ChainPosition(i) == wire[i].mac.key[2].n

\* the (ratchet counter, secret) of the first add_receive_secret call of
\* context c for sender id 1
Registered(c) == added[c][1][1]

\* state was built by add_receive_secret(a[1], a[2]) and advanced since then
\* by decrypts only: its secret lies on the chain of a[2], at or after it,
\* with the counter and the keys of that chain position
DescendsFrom(state, a) ==
    LET secret == state.sender_state.current_secret
    IN  /\ secret.root = a[2].root
        /\ secret.n >= a[2].n
        /\ state.sender_state =
              SenderStateNew((a[1] + secret.n - a[2].n) % RatchetCounterModulus,
                             secret)

----------------------------------------------------------------------------
\* C5.  Retention bound: in every reachable state and for every sender id,
\* the ReceiverState sequence has at most MAX_RECEIVER_STATES_TO_RETAIN (5)
\* states, and they are the states of the most recent min(n, 5) of the n
\* add_receive_secret calls for that sender id, newest first: the k-th
\* state descends from the k-th most recent call.  So a call on a full
\* sequence drops the tail and puts the new state at the head.
RetentionBound ==
    \A c \in Ctxs, id \in SenderIds :
        LET n      == Len(added[c][id])
            states == StatesOf(c, id)
            m      == IF n < MAX_RECEIVER_STATES_TO_RETAIN
                      THEN n ELSE MAX_RECEIVER_STATES_TO_RETAIN
        IN  /\ Len(states) <= MAX_RECEIVER_STATES_TO_RETAIN
            /\ Len(states) = m
            /\ \A k \in 1 .. m : DescendsFrom(states[k], added[c][id][n + 1 - k])

\* more calls than the limit, the dropped call unlike the one after it, the
\* newest unlike the one before it, and a state a decrypt has advanced
RetentionWitness ==
    LET n == Len(added[1][1])
    IN  /\ n > MAX_RECEIVER_STATES_TO_RETAIN
        /\ added[1][1][1] # added[1][1][2]
        /\ added[1][1][n] # added[1][1][n - 1]
        /\ \E k \in 1 .. Len(StatesOf(1, 1)) : StatesOf(1, 1)[k].ratchet_frame > 0

----------------------------------------------------------------------------
\* C6.  OOO-ratchet bound: in every reachable state, so after every
\* catch-up commit, every stored ReceiverState has
\* (sender_state.ratchet_counter - old_ratchet_counter) mod 256 at most
\* MAX_OOO_RATCHETS (5).
OooRatchetBound ==
    \A c \in Ctxs, id \in SenderIds :
        \A k \in 1 .. Len(StatesOf(c, id)) :
            LET state == StatesOf(c, id)[k]
            IN  WrappingSubU8(state.sender_state.ratchet_counter,
                              state.old_ratchet_counter) <= MAX_OOO_RATCHETS

\* a catch-up commit after which the distance is exactly the limit because
\* limit_ooo moved the old position: forward over more than 5 steps, so
\* that the old secret left the registered one
OooRatchetWitness ==
    /\ last.op = "decrypt" /\ last.phase = "B"
    /\ \E k \in 1 .. Len(StatesOf(last.ctx, last.sender_id)) :
          LET state == StatesOf(last.ctx, last.sender_id)[k]
          IN  /\ WrappingSubU8(state.sender_state.ratchet_counter,
                               state.old_ratchet_counter) = MAX_OOO_RATCHETS
              /\ state.old_secret.n > Registered(last.ctx)[2].n
              /\ state.sender_state.current_secret.n > state.old_secret.n

----------------------------------------------------------------------------
\* C7.  Ratchet crossover with in-order delivery (SpecInOrder hands every
\* frame over later than the frames before it): a receiver that
\* registered the sender's (counter, secret) once - the initial one or the
\* pair an advance_send_ratchet returned - and is handed frames sent at or
\* after that position, in increasing frame counter order, decrypts every
\* one of them, provided at most 255
\* advance_send_ratchet calls lie between the registration and the first
\* frame and between each frame and the next; a frame from a later
\* position than the previous one is decrypted by the catch-up loop.

\* chain position the receiver was brought to before frame i: that of the
\* latest frame before i it was handed, or the registered one
PrevPosition(c, i) ==
    LET before == {j \in DOMAIN outcome[c] : j < i}
    IN  IF before = {} THEN Registered(c)[2].n
        ELSE ChainPosition(MaxOf(before))

\* the frames of the set were sent at or after the registered position,
\* each at most 255 steps after the one handed over before it
WithinOneTurn(c, frames) ==
    /\ Len(added[c][1]) = 1
    /\ \A j \in frames :
          /\ wire[j].mac.key[2].root = Registered(c)[2].root
          /\ ChainPosition(j) >= PrevPosition(c, j)
          /\ ChainPosition(j) - PrevPosition(c, j) <= RatchetCounterModulus - 1

InOrderCase(c, i) ==
    /\ \A j \in DOMAIN outcome[c] : j < i
    /\ WithinOneTurn(c, DOMAIN outcome[c] \cup {i})

----------------------------------------------------------------------------
\* C8.  Out of order across a ratchet step: frame A was encrypted at the
\* position (c, secret) the receiver registered, frame B after j more
\* advance_send_ratchet calls, 1 <= j <= MAX_OOO_RATCHETS (5).  Decrypting
\* B in the freshly registered state returns Ok and yields B's plaintext,
\* and decrypting the late frame A right after it returns Ok and yields
\* A's plaintext.
OooPair(c, a, b) ==
    /\ a < b
    /\ Len(added[c][1]) = 1
    /\ Registered(c) = <<wire[a].ratchet_counter, wire[a].mac.key[2]>>
    /\ wire[b].mac.key[2].root = wire[a].mac.key[2].root
    /\ ChainPosition(b) - ChainPosition(a) \in 1 .. MAX_OOO_RATCHETS

OutOfOrderAcrossRatchet ==
    [][\A c \in Ctxs, a, b \in 1 .. Len(wire) :
          OooPair(c, a, b)
              => /\ (/\ IsDecrypt(last', c, 1, b, "none")
                     /\ StatesOf(c, 1) =
                           <<ReceiverStateNew(Registered(c)[1], Registered(c)[2])>>)
                       => (last'.result = "Ok" /\ last'.data = Plain(b))
                 /\ (/\ IsDecrypt(last', c, 1, a, "none")
                     /\ DOMAIN outcome[c] = {b})
                       => (last'.result = "Ok" /\ last'.data = Plain(a))]_vars

\* B decrypted first and A after it, with the largest distance between them
OutOfOrderWitness ==
    \E c \in Ctxs, a, b \in 1 .. Len(wire) :
        /\ OooPair(c, a, b)
        /\ ChainPosition(b) - ChainPosition(a) = MAX_OOO_RATCHETS
        /\ IsDecrypt(last, c, 1, a, "none")
        /\ DOMAIN outcome[c] = {a, b}
        /\ outcome[c][a] = "Ok" /\ outcome[c][b] = "Ok"
        /\ last.phase = "B"
        /\ last.data = Plain(a)

----------------------------------------------------------------------------
\* C9.  Order independence of decrypt.  The results of handing a set of
\* frames to a receiver in the order of the wire are computed by
\* InOrderOutcome; a receiver that registered the sender's secret once and
\* was handed the set in some order holds its own results in outcome.

\* results of decrypting the frames of the set, from frame i on, in
\* increasing frame counter order, starting with the sequence `states`
RECURSIVE InOrderOutcome(_, _, _)
InOrderOutcome(states, frames, i) ==
    IF i > Len(wire) THEN <<>>
    ELSE IF i \notin frames THEN InOrderOutcome(states, frames, i + 1)
    ELSE LET r == Untampered(states, i)
         IN  (i :> r.result) @@ InOrderOutcome(r.states, frames, i + 1)

\* the results context c would have got for the frames it was handed, had
\* they come in the order they were sent
SentOrderOutcome(c) ==
    InOrderOutcome(<<ReceiverStateNew(Registered(c)[1], Registered(c)[2])>>,
                   DOMAIN outcome[c], 1)

\* C9 as claimed: for any set of frames of one sender, across any of its
\* ratchet positions, each frame's result (Ok or NoMatchingReceiverState)
\* is the same in every delivery order, so the same as in the sent order.
DecryptOrderIndependent ==
    \A c \in Ctxs :
        Len(added[c][1]) = 1 => outcome[c] = SentOrderOutcome(c)

\* C9 as the code has it: for frames that were all encrypted at one ratchet
\* position (no advance_send_ratchet between them), each frame's result is
\* the same in every delivery order.
DecryptOrderIndependentAtOnePosition ==
    \A c \in Ctxs :
        (/\ Len(added[c][1]) = 1
         /\ \A i, j \in DOMAIN outcome[c] : wire[i].mac.key = wire[j].mac.key)
            => outcome[c] = SentOrderOutcome(c)

\* two frames of one position, later than the registered one, handed over
\* in reverse order: the first through the catch-up loop, both Ok
OnePositionWitness ==
    \E c \in Ctxs :
        /\ Len(added[c][1]) = 1
        /\ DOMAIN outcome[c] = {1, 2}
        /\ wire[1].mac.key = wire[2].mac.key
        /\ ChainPosition(1) > Registered(c)[2].n
        /\ IsDecrypt(last, c, 1, 1, "none")
        /\ outcome[c][1] = "Ok" /\ outcome[c][2] = "Ok"

----------------------------------------------------------------------------
\* C10.  Ratchet determinism.  The probes below call try_advance_ratchet
\* on every stored state of a receiver that registered (c, s) once.

\* goal counters probed: those the chain passes, the one after them, and
\* the last value of a u8
GoalCounters == (0 .. MaxAdvanceChain + 1) \cup {RatchetCounterModulus - 1}

\* frame counters probed: one that no ratchet_frame is below, for which
\* try_advance_ratchet starts from the old position, and one above every
\* ratchet_frame, for which it starts from the current position
FrameCounters == {0, MaxFramesChain + 1}

\* SenderState::new(c, s) after n mut_advance_ratchet calls
SenderAdvanced(c, s, n) ==
    SenderStateNew((c + n) % RatchetCounterModulus, HkdfRatchetTimes(s, n))

\* C10 as claimed: try_advance_ratchet(k, f) on any state reached from
\* ReceiverState::new(c, s) through decrypts gives the secret and keys of
\* SenderState::new(c, s) advanced forward until its counter is k.
RatchetDeterminism ==
    \A r \in Ctxs :
        Len(added[r][1]) = 1 =>
            \A i \in 1 .. Len(StatesOf(r, 1)), k \in GoalCounters, f \in FrameCounters :
                TryAdvanceRatchet(StatesOf(r, 1)[i], k, f).sender_state
                    = SenderAdvanced(Registered(r)[1], Registered(r)[2],
                                     WrappingSubU8(k, Registered(r)[1]))

\* C10 as the code has it: try_advance_ratchet(k, f) gives the secret and
\* keys of SenderState::new(c, s) after some number n of
\* mut_advance_ratchet calls that leave its counter at k, that is with
\* (c + n) mod 256 = k; for ReceiverState::new(c, s) itself n is
\* (k - c) mod 256.
RatchetDeterminismUpToTurns ==
    \A r \in Ctxs :
        Len(added[r][1]) = 1 =>
            \A i \in 1 .. Len(StatesOf(r, 1)), k \in GoalCounters, f \in FrameCounters :
                \E got \in {TryAdvanceRatchet(StatesOf(r, 1)[i], k, f).sender_state} :
                    LET c == Registered(r)[1]
                        s == Registered(r)[2]
                        n == got.current_secret.n - s.n
                    IN  /\ n >= 0
                        /\ (c + n) % RatchetCounterModulus = k
                        /\ got = SenderAdvanced(c, s, n)
                        /\ StatesOf(r, 1)[i] = ReceiverStateNew(c, s)
                              => n = WrappingSubU8(k, c)

\* a state a catch-up commit moved past a goal counter, from which the walk
\* to that goal goes once around the u8
RatchetTurnWitness ==
    \E r \in Ctxs :
        /\ Len(added[r][1]) = 1
        /\ last.op = "decrypt" /\ last.ctx = r /\ last.phase = "B"
        /\ \E i \in 1 .. Len(StatesOf(r, 1)), k \in GoalCounters, f \in FrameCounters :
              LET got == TryAdvanceRatchet(StatesOf(r, 1)[i], k, f).sender_state
              IN  /\ k # RatchetCounterModulus - 1
                  /\ got.current_secret.n - Registered(r)[2].n
                        = RatchetCounterModulus + WrappingSubU8(k, Registered(r)[1])

----------------------------------------------------------------------------
\* C11.  Receiver/sender equivalence on a fresh state: for every secret s
\* and every n in 0..255, ReceiverState::new(0, s).try_advance_ratchet(n, 0)
\* has a sender_state equal in all four fields to SenderState::new(0, s)
\* after n calls of mut_advance_ratchet.  (In SpecSender sender_state[c] is
\* SenderState::new(0, s) after ChainLength(c) such calls.)
FreshReceiverEqualsSender ==
    \A c \in Ctxs :
        ChainLength(c) < RatchetCounterModulus
            => TryAdvanceRatchet(ReceiverStateNew(0, InitialSecret(c)),
                                 ChainLength(c), 0).sender_state
                  = sender_state[c]

\* the largest n: 255 calls of mut_advance_ratchet
FreshReceiverWitness ==
    /\ ChainLength(1) = RatchetCounterModulus - 1
    /\ sender_state[1].ratchet_counter = RatchetCounterModulus - 1
    /\ sender_state[1].current_secret # InitialSecret(1)
    /\ TryAdvanceRatchet(ReceiverStateNew(0, InitialSecret(1)),
                         RatchetCounterModulus - 1, 0).sender_state
          = sender_state[1]

----------------------------------------------------------------------------
\* C12.  Secret rotation scenario, in a context created from Root(c) that
\* registered (0, Root(c)) for sender id 1.

\* add_receive_secret(1, 0, Root(new)) and reset_send_ratchet(Root(new))
\* were called, and the frames encrypted before the reset are `frames`
Rotated(c, new, frames) ==
    /\ added[c][1] = <<<<0, Root(c)>>, <<0, Root(new)>>>>
    /\ sender_state[c] = SenderStateNew(0, Root(new))
    /\ \A i \in frames :
          /\ i \in 1 .. Len(wire)
          /\ wire[i].from = c
          /\ FrameSenderState(i) = SenderStateNew(0, Root(c))

\* C12 as claimed: after encrypting frame 1, add_receive_secret of the new
\* secret and reset_send_ratchet to it, the next encrypt returns (0, 3).
RotationEncryptReturnsThree ==
    [][\A c \in Ctxs : \A new \in Secrets \ {c} :
          (/\ Len(wire) = 1
           /\ Rotated(c, new, {1})
           /\ last'.op = "encrypt" /\ last'.ctx = c)
              => last'.value = <<0, 3>>]_vars

\* C12 as the code has it: the encrypt after the reset returns (0, 3) when
\* two frames were encrypted before the reset (frame 1 and, as in
\* test_rotate_secret, frame 2 after the new secret was registered), and
\* it returns (0, 2) when frame 1 was the only one; the decrypt of that
\* frame returns Ok through the state add_receive_secret put at the head.
RotationScenario ==
    [][\A c \in Ctxs : \A new \in Secrets \ {c} :
          /\ (/\ Len(wire) = 2
              /\ Rotated(c, new, {1, 2})
              /\ last'.op = "encrypt" /\ last'.ctx = c)
                 => last'.value = <<0, 3>>
          /\ (/\ Len(wire) = 1
              /\ Rotated(c, new, {1})
              /\ last'.op = "encrypt" /\ last'.ctx = c)
                 => last'.value = <<0, 2>>
          /\ (/\ Len(wire) = 3
              /\ Rotated(c, new, {1, 2})
              /\ wire[3].from = c
              /\ FrameSenderState(3) = SenderStateNew(0, Root(new))
              /\ IsDecrypt(last', c, 1, 3, "none"))
                 => /\ last'.result = "Ok"
                    /\ last'.data = Buffer(wire[3].plain)
                    /\ StatesOf(c, 1)[1] = ReceiverStateNew(0, Root(new))
                    /\ FastPathMatch(StatesOf(c, 1), wire[3].ratchet_counter,
                                     wire[3].frame_counter, wire[3].data,
                                     wire[3].mac) = 1]_vars

\* the third frame, encrypted after the reset with counters (0, 3), has
\* been decrypted
RotationWitness ==
    /\ Len(wire) = 3
    /\ Rotated(1, 2, {1, 2})
    /\ StatesOf(1, 1) = <<ReceiverStateNew(0, Root(2)), ReceiverStateNew(0, Root(1))>>
    /\ FrameSenderState(3) = SenderStateNew(0, Root(2))
    /\ wire[3].ratchet_counter = 0 /\ wire[3].frame_counter = 3
    /\ IsDecrypt(last, 1, 1, 3, "none")
    /\ last.result = "Ok" /\ last.phase = "A"

\* ---------------------------------------------------------------------
\* C13  While several ReceiverStates are retained for one sender id, a
\* frame encrypted at the position one of them holds decrypts whatever
\* the place of that state in the sequence: the first loop of decrypt
\* finds it, the call returns Ok with the plaintext, and this holds for a
\* frame under the old secret after newer secrets were pushed at the head.

\* indices of the retained states of c for sender_id that hold the position
\* frame i was encrypted at
HoldersOf(c, sender_id, i) ==
    {k \in 1 .. Len(StatesOf(c, sender_id)) :
        StatesOf(c, sender_id)[k].sender_state = FrameSenderState(i)}

RetainedSecretDecrypts ==
    [][\A c \in Ctxs : \A id \in SenderIds : \A i \in 1 .. Len(wire) :
          (/\ HoldersOf(c, id, i) # {}
           /\ IsDecrypt(last', c, id, i, "none"))
              => /\ last'.result = "Ok"
                 /\ last'.phase = "A"
                 /\ last'.data = Buffer(wire[i].plain)
                 /\ Len(StatesOf(c, id)) <= MAX_RECEIVER_STATES_TO_RETAIN]_vars

\* five states are retained, the frame was encrypted under the oldest
\* one, which sits at the tail behind newer secrets, and decrypt returned Ok
RetainedSecretWitness ==
    /\ Len(wire) = 1
    /\ Len(StatesOf(1, 1)) = MAX_RECEIVER_STATES_TO_RETAIN
    /\ HoldersOf(1, 1, 1) = {MAX_RECEIVER_STATES_TO_RETAIN}
    /\ StatesOf(1, 1)[MAX_RECEIVER_STATES_TO_RETAIN] = ReceiverStateNew(0, Root(1))
    /\ StatesOf(1, 1)[1] = ReceiverStateNew(0, Root(2))
    /\ IsDecrypt(last, 1, 1, 1, "none")
    /\ last.result = "Ok"
    /\ last.phase = "A"

\* ---------------------------------------------------------------------
\* C14  Encryption never fails: every encrypt call, in every state and
\* for every buffer, the empty one included, returns Ok with the ratchet
\* counter of the local SenderState and the frame counter the context
\* held before the call, and puts one frame on the wire.
EncryptNeverFails ==
    [][\A c \in Ctxs :
          (last'.op = "encrypt" /\ last'.ctx = c)
              => /\ last'.result = "Ok"
                 /\ last'.value = <<sender_state[c].ratchet_counter,
                                    next_frame_counter[c]>>
                 /\ Len(wire') = Len(wire) + 1
                 /\ wire'[Len(wire')].ratchet_counter = last'.value[1]
                 /\ wire'[Len(wire')].frame_counter = last'.value[2]]_vars

\* an empty buffer was encrypted after the ratchet had advanced and after
\* an earlier frame, and the call returned Ok
EncryptNeverFailsWitness ==
    /\ last.op = "encrypt"
    /\ last.result = "Ok"
    /\ last.frame = Len(wire)
    /\ last.frame > 1
    /\ wire[last.frame].plain = <<>>
    /\ last.value[1] > 0
    /\ last.value[2] > 1

\* ---------------------------------------------------------------------
\* C15  reset_send_ratchet(new_secret) replaces the local SenderState by
\* a fresh one at ratchet counter 0 on new_secret: send_state() then
\* returns (0, new_secret), an encrypt that follows reports ratchet
\* counter 0 and authenticates under the keys of new_secret, and the call
\* leaves next_frame_counter and every ReceiverState as they were.
ResetSendRatchetEffect ==
    [][\A c \in Ctxs :
          /\ (last'.op = "reset_send_ratchet" /\ last'.ctx = c)
                 => /\ sender_state'[c] = SenderStateNew(0, last'.value[1])
                    /\ SendState(c)' = <<0, last'.value[1]>>
                    /\ next_frame_counter' = next_frame_counter
                    /\ remote_states_by_id' = remote_states_by_id
          /\ (/\ last.op = "reset_send_ratchet" /\ last.ctx = c
              /\ last'.op = "encrypt" /\ last'.ctx = c)
                 => /\ last'.value = <<0, next_frame_counter[c]>>
                    /\ wire'[Len(wire')].mac =
                          ComputeMac(DeriveHmacKey(last.value[1]),
                                     ConvertFrameCounterToIv(next_frame_counter[c]),
                                     wire'[Len(wire')].data)]_vars

\* a context that had advanced its ratchet to counter 1 and sent a frame
\* there was reset to another secret while it retained a ReceiverState
ResetSendRatchetWitness ==
    /\ last.op = "reset_send_ratchet"
    /\ last.ctx = 1
    /\ last.value = <<Root(2)>>
    /\ SendState(1) = <<0, Root(2)>>
    /\ \E i \in 1 .. Len(wire) : wire[i].from = 1 /\ wire[i].ratchet_counter = 1
    /\ next_frame_counter[1] > 1
    /\ StatesOf(1, 1) # <<>>

\* ---------------------------------------------------------------------
\* C16  advance_send_ratchet moves the local chain one step: the ratchet
\* counter becomes (old + 1) mod 256, so 255 wraps to 0; the secret becomes
\* the HKDF ratchet of the old secret and both keys are derived from the
\* new secret; the pair it returns is what send_state() returns right
\* after; next_frame_counter and every ReceiverState stay as they were.
AdvanceSendRatchetOneStep ==
    [][\A c \in Ctxs :
          (last'.op = "advance_send_ratchet" /\ last'.ctx = c)
              => /\ sender_state'[c].ratchet_counter =
                       (sender_state[c].ratchet_counter + 1) % RatchetCounterModulus
                 /\ sender_state'[c].current_secret =
                       HkdfRatchet(sender_state[c].current_secret)
                 /\ sender_state'[c].current_aes_key =
                       DeriveAesKey(sender_state'[c].current_secret)
                 /\ sender_state'[c].current_hmac_key =
                       DeriveHmacKey(sender_state'[c].current_secret)
                 /\ last'.value = SendState(c)'
                 /\ next_frame_counter' = next_frame_counter
                 /\ remote_states_by_id' = remote_states_by_id]_vars

\* the 256th advance of a chain took the counter from 255 to 0, on a
\* secret 256 steps from the initial one, while a ReceiverState was held
AdvanceSendRatchetWrapWitness ==
    /\ last.op = "advance_send_ratchet"
    /\ last.ctx = 1
    /\ ChainLength(1) = RatchetCounterModulus
    /\ sender_state[1].ratchet_counter = 0
    /\ last.value = <<0, HkdfRatchetTimes(InitialSecret(1), RatchetCounterModulus)>>
    /\ StatesOf(1, 1) = <<ReceiverStateNew(0, InitialSecret(1))>>

\* ---------------------------------------------------------------------
\* C17  The sender_state of a ReceiverState is the most advanced position
\* reached on its chain: no decrypt call replaces the sender_state of a
\* stored ReceiverState by a position with fewer ratchet steps from the
\* registered secret than the one it held before the call.

\* number of ratchet steps between the root secret and the current secret
\* of a ReceiverState
StepsOf(state) == state.sender_state.current_secret.n

SenderStateNeverRegresses ==
    [][\A c \in Ctxs : \A id \in SenderIds :
          (/\ last'.op = "decrypt" /\ last'.ctx = c /\ last'.sender_id = id
           /\ Len(StatesOf(c, id)') = Len(StatesOf(c, id)))
              => \A k \in 1 .. Len(StatesOf(c, id)) :
                    StepsOf(StatesOf(c, id)'[k]) >= StepsOf(StatesOf(c, id)[k])]_vars

\* ---------------------------------------------------------------------
\* C18  In every reachable state the old position of each ReceiverState
\* is a prior or equal position on the chain of its sender_state: the
\* current secret is the old secret ratcheted forward
\* (sender_state.ratchet_counter - old_ratchet_counter) mod 256 times.
OldPositionIsAncestor ==
    \A c \in Ctxs : \A id \in SenderIds :
        \A k \in 1 .. Len(StatesOf(c, id)) :
            LET state == StatesOf(c, id)[k]
            IN  state.sender_state.current_secret =
                    HkdfRatchetTimes(state.old_secret,
                        WrappingSubU8(state.sender_state.ratchet_counter,
                                      state.old_ratchet_counter))

\* ---------------------------------------------------------------------
\* C19  The fast path has priority and reads only: when some
\* ReceiverState of the sender's sequence has the wire's ratchet counter
\* and authenticates the frame, decrypt returns Ok from the first loop,
\* commits no catch-up state and leaves every ReceiverState - ratchet_frame
\* and the old position included - as it was, even when a newer state of
\* the sequence would authenticate the frame after a catch-up.

\* the frame decrypt is called on: wire[i] altered by t
FrameOf(i, t) == Tampered(wire[i], t)

\* index of the state the first loop stops at for wire[i] altered by t
FastPathOf(c, id, i, t) ==
    FastPathMatch(StatesOf(c, id), FrameOf(i, t).ratchet_counter,
                  FrameOf(i, t).frame_counter, FrameOf(i, t).data,
                  FrameOf(i, t).mac)

\* index of the state the second loop would stop at for wire[i] altered by t
CatchUpOf(c, id, i, t) ==
    CatchUpMatch(StatesOf(c, id), FrameOf(i, t).ratchet_counter,
                 FrameOf(i, t).frame_counter, FrameOf(i, t).data,
                 FrameOf(i, t).mac)

FastPathFirstAndReadOnly ==
    [][\A c \in Ctxs : \A id \in SenderIds : \A i \in 1 .. Len(wire) :
          \A t \in TamperKinds :
              (/\ FastPathOf(c, id, i, t) # 0
               /\ IsDecrypt(last', c, id, i, t))
                  => /\ last'.result = "Ok"
                     /\ last'.phase = "A"
                     /\ last'.data =
                           DecryptInternal(StatesOf(c, id)[FastPathOf(c, id, i, t)],
                                           FrameOf(i, t).frame_counter,
                                           FrameOf(i, t).data)
                     /\ remote_states_by_id' = remote_states_by_id]_vars

\* a frame at ratchet counter 1 was decrypted by the first loop at the
\* second state of the sequence while the newer state at the head, still
\* at counter 0 of the same chain, would have authenticated it after a
\* catch-up; the head is as it was registered
FastPathFirstWitness ==
    /\ Len(wire) >= 1
    /\ \E i \in 1 .. Len(wire) :
          /\ IsDecrypt(last, 1, 1, i, "none")
          /\ wire[i].ratchet_counter = 1
          /\ FastPathOf(1, 1, i, "none") = 2
          /\ CatchUpOf(1, 1, i, "none") = 1
    /\ last.result = "Ok"
    /\ last.phase = "A"
    /\ StatesOf(1, 1)[1] = ReceiverStateNew(0, Root(1))

\* ---------------------------------------------------------------------
\* C20  A successful catch-up decrypt commits exactly one state: the
\* first ReceiverState of the sender's sequence whose tentative advanced
\* state authenticates the frame is replaced by that tentative state
\* after limit_ooo; every other ReceiverState, the order and the length of
\* the sequence, and the sequences of other sender ids stay as they were,
\* so the tentative states built for the states before it are dropped.

\* the tentative state of the k-th ReceiverState authenticates wire[i]
\* altered by t
TentativeAuthenticates(c, id, k, i, t) ==
    CheckMac(TryAdvanceRatchet(StatesOf(c, id)[k], FrameOf(i, t).ratchet_counter,
                               FrameOf(i, t).frame_counter),
             FrameOf(i, t).frame_counter, FrameOf(i, t).data, FrameOf(i, t).mac)

CatchUpCommitsOneState ==
    [][\A c \in Ctxs : \A id \in SenderIds : \A i \in 1 .. Len(wire) :
          \A t \in TamperKinds :
              (/\ IsDecrypt(last', c, id, i, t)
               /\ last'.phase = "B")
                  => /\ last'.result = "Ok"
                     /\ FastPathOf(c, id, i, t) = 0
                     /\ \E b \in 1 .. Len(StatesOf(c, id)) :
                           /\ TentativeAuthenticates(c, id, b, i, t)
                           /\ \A j \in 1 .. b - 1 :
                                 ~TentativeAuthenticates(c, id, j, i, t)
                           /\ remote_states_by_id' =
                                 [remote_states_by_id EXCEPT ![c][id][b] =
                                     LimitOoo(TryAdvanceRatchet(@,
                                         FrameOf(i, t).ratchet_counter,
                                         FrameOf(i, t).frame_counter))]]_vars

\* a frame at ratchet counter 1 was decrypted by a catch-up of the second
\* state of the sequence; the head, registered on another secret, did not
\* authenticate it and is as it was registered
CatchUpCommitWitness ==
    /\ last.op = "decrypt"
    /\ last.result = "Ok"
    /\ last.phase = "B"
    /\ last.frame \in 1 .. Len(wire)
    /\ wire[last.frame].ratchet_counter = 1
    /\ Len(StatesOf(1, 1)) = 2
    /\ StatesOf(1, 1)[1] = ReceiverStateNew(0, Root(2))
    /\ StatesOf(1, 1)[2] =
          [sender_state        |-> FrameSenderState(last.frame),
           ratchet_frame       |-> wire[last.frame].frame_counter,
           old_secret          |-> Root(1),
           old_ratchet_counter |-> 0]

\* ---------------------------------------------------------------------
\* C21  After every successful catch-up commit the ratchet_frame of the
\* committed ReceiverState is the frame counter of the frame that caused
\* the commit, also when that is smaller than the ratchet_frame held
\* before (no maximum is taken); a success of the first loop and a failed
\* decrypt leave every ratchet_frame as it was.

\* the ratchet_frame of each state of the sequence of id in context c
RatchetFrames(c, id) ==
    [k \in 1 .. Len(StatesOf(c, id)) |-> StatesOf(c, id)[k].ratchet_frame]

RatchetFrameOverwritten ==
    [][\A c \in Ctxs : \A id \in SenderIds : \A i \in 1 .. Len(wire) :
          \A t \in TamperKinds :
              IsDecrypt(last', c, id, i, t)
                  => IF last'.phase = "B"
                     THEN \E b \in 1 .. Len(StatesOf(c, id)) :
                             /\ TentativeAuthenticates(c, id, b, i, t)
                             /\ \A j \in 1 .. b - 1 :
                                   ~TentativeAuthenticates(c, id, j, i, t)
                             /\ RatchetFrames(c, id)' =
                                   [RatchetFrames(c, id) EXCEPT
                                       ![b] = FrameOf(i, t).frame_counter]
                     ELSE RatchetFrames(c, id)' = RatchetFrames(c, id)]_vars

\* the frame at frame counter 1 was committed by a catch-up after the frame
\* at frame counter 2 had been: ratchet_frame went from 2 back to 1
RatchetFrameLoweredWitness ==
    /\ IsDecrypt(last, 2, 1, 1, "none")
    /\ last.result = "Ok"
    /\ last.phase = "B"
    /\ Len(wire) = 2
    /\ wire[1].frame_counter = 1
    /\ wire[2].frame_counter = 2
    /\ 2 \in DOMAIN outcome[2]
    /\ outcome[2][2] = "Ok"
    /\ wire[2].ratchet_counter # wire[1].ratchet_counter
    /\ Len(StatesOf(2, 1)) = 1
    /\ StatesOf(2, 1)[1].ratchet_frame = 1

\* ---------------------------------------------------------------------
\* C22  Bounded work: the while loop of try_advance_ratchet reaches the
\* goal counter after at most 255 passes from the position it starts at,
\* current or old, whatever the start and the goal counter; the loop of
\* limit_ooo ends after at most 250 passes; so the call ends.  The passes
\* made are (goal - start) mod 256 and the distance of old beyond
\* MAX_OOO_RATCHETS, and the state left is the one the closed forms give.

\* the counter the while loop of try_advance_ratchet started at
WalkStart(l) ==
    IF l.frame_counter > l.input.ratchet_frame
    THEN l.input.sender_state.ratchet_counter
    ELSE l.input.old_ratchet_counter

BoundedWork ==
    /\ loop.fn = "try_advance_ratchet"
          => /\ loop.passes <= RatchetCounterModulus - 1
             /\ loop.cur = (WalkStart(loop) + loop.passes) % RatchetCounterModulus
    /\ loop.fn \in {"limit_ooo", "done"}
          => /\ loop.walked = WrappingSubU8(loop.goal, WalkStart(loop))
             /\ loop.walked <= RatchetCounterModulus - 1
             /\ loop.passes <= RatchetCounterModulus - 1 - MAX_OOO_RATCHETS
    /\ loop.fn = "done"
          => loop.self = LimitOoo(TryAdvanceRatchet(loop.input, loop.goal,
                                                    loop.frame_counter))
    /\ loop.fn # "done" => ENABLED NextLoops

\* a call ended after 255 passes of the walk and 250 passes of limit_ooo
BoundedWorkWitness ==
    /\ loop.fn = "done"
    /\ loop.walked = RatchetCounterModulus - 1
    /\ loop.passes = RatchetCounterModulus - 1 - MAX_OOO_RATCHETS
    /\ loop.self.sender_state.ratchet_counter = loop.goal

\* ---------------------------------------------------------------------
\* C23  try_advance_ratchet(goal, f) starts from the current position when
\* f > ratchet_frame and from the old position otherwise, f = ratchet_frame
\* included; the state it returns carries as old the caller's current
\* secret and counter exactly when (f - ratchet_frame) mod 2^64 exceeds
\* MAX_OOO_FRAMES, and the caller's old secret and counter otherwise; its
\* ratchet_frame is f in both cases.

\* (f - ratchet_frame) mod 2^64 > MAX_OOO_FRAMES, for counters below 2^63:
\* a negative difference wraps to 2^64 minus its size
FrameDistanceExceeds(f, ratchet_frame) ==
    \/ f - ratchet_frame > MAX_OOO_FRAMES
    \/ f < ratchet_frame

TryAdvanceRatchetBranches ==
    /\ (loop.fn = "try_advance_ratchet" /\ loop.passes = 0)
          => IF loop.frame_counter > loop.input.ratchet_frame
             THEN /\ loop.cur = loop.input.sender_state.ratchet_counter
                  /\ loop.secret = loop.input.sender_state.current_secret
             ELSE /\ loop.cur = loop.input.old_ratchet_counter
                  /\ loop.secret = loop.input.old_secret
    /\ (loop.fn = "limit_ooo" /\ loop.passes = 0)
          => /\ loop.self.ratchet_frame = loop.frame_counter
             /\ loop.self.sender_state.ratchet_counter = loop.goal
             /\ IF FrameDistanceExceeds(loop.frame_counter, loop.input.ratchet_frame)
                THEN /\ loop.self.old_secret =
                           loop.input.sender_state.current_secret
                     /\ loop.self.old_ratchet_counter =
                           loop.input.sender_state.ratchet_counter
                ELSE /\ loop.self.old_secret = loop.input.old_secret
                     /\ loop.self.old_ratchet_counter =
                           loop.input.old_ratchet_counter

\* a late frame: the walk started from the old position, five steps behind
\* the current one, and the state returned holds the caller's current
\* position as old and the late frame's counter as ratchet_frame
LateFrameBranchWitness ==
    /\ loop.fn = "limit_ooo"
    /\ loop.passes = 0
    /\ loop.frame_counter < loop.input.ratchet_frame
    /\ loop.input.old_ratchet_counter # loop.input.sender_state.ratchet_counter
    /\ loop.walked = WrappingSubU8(loop.goal, loop.input.old_ratchet_counter)
    /\ loop.walked > 0
    /\ loop.self.old_ratchet_counter = loop.input.sender_state.ratchet_counter
    /\ loop.self.ratchet_frame = loop.frame_counter

\* ---------------------------------------------------------------------
\* C24  Decrypt soundness: decrypt for a sender id returns Ok only if the
\* MAC of the frame verifies under the HMAC key of a chain position that
\* lies zero or more ratchet steps after a secret registered with
\* add_receive_secret for that sender id and still retained; for a sender
\* id without a registered secret, and for a frame that only another
\* sender's secret or an evicted secret authenticates, it returns
\* NoMatchingReceiverState.

\* the add_receive_secret calls of c for id whose states are retained: the
\* last MAX_RECEIVER_STATES_TO_RETAIN ones
RetainedRegistrations(c, id) ==
    LET calls == added[c][id]
    IN  {calls[j] : j \in {k \in 1 .. Len(calls) :
                              k > Len(calls) - MAX_RECEIVER_STATES_TO_RETAIN}}

\* secret lies zero or more ratchet steps after the secret registered by a
OnChainOf(secret, a) ==
    /\ secret.root = a[2].root
    /\ secret.n >= a[2].n

\* the MAC of frame f is the HMAC, under the key derived from a secret, of
\* the IV of its frame counter and of its data
Authentic(f) ==
    /\ f.mac.key = DeriveHmacKey(f.mac.key[2])
    /\ f.mac = ComputeMac(f.mac.key, ConvertFrameCounterToIv(f.frame_counter),
                          f.data)

DecryptSound ==
    [][\A c \in Ctxs : \A id \in SenderIds : \A i \in 1 .. Len(wire) :
          \A t \in TamperKinds :
              IsDecrypt(last', c, id, i, t)
                  => /\ last'.result \in {"Ok", "NoMatchingReceiverState"}
                     /\ last'.result = "Ok"
                           => /\ Authentic(FrameOf(i, t))
                              /\ \E a \in RetainedRegistrations(c, id) :
                                    OnChainOf(FrameOf(i, t).mac.key[2], a)
                     /\ added[c][id] = <<>>
                           => last'.result = "NoMatchingReceiverState"]_vars

\* the frame was encrypted under a secret registered for sender id 1 and
\* evicted by five later registrations, the same secret is registered for
\* sender id 2, and decrypt for sender id 1 returned NoMatchingReceiverState
EvictedSecretWitness ==
    /\ IsDecrypt(last, 1, 1, 1, "none")
    /\ last.result = "NoMatchingReceiverState"
    /\ Len(added[1][1]) = MAX_RECEIVER_STATES_TO_RETAIN + 1
    /\ OnChainOf(wire[1].mac.key[2], added[1][1][1])
    /\ \A a \in RetainedRegistrations(1, 1) : ~OnChainOf(wire[1].mac.key[2], a)
    /\ Len(added[1][2]) = 1
    /\ OnChainOf(wire[1].mac.key[2], added[1][2][1])

\* ---------------------------------------------------------------------
\* C25  Sender isolation: add_receive_secret and decrypt for a sender id
\* change neither the ReceiverState sequence of any other sender id nor
\* the local sender_state or next_frame_counter; encrypt,
\* advance_send_ratchet and reset_send_ratchet change no ReceiverState.
SenderIsolation ==
    [][\A c \in Ctxs :
          /\ (last'.ctx = c /\ last'.op \in {"add_receive_secret", "decrypt"})
                => /\ \A y \in SenderIds \ {last'.sender_id} :
                         /\ StatesOf(c, y)' = StatesOf(c, y)
                         /\ y \in DOMAIN remote_states_by_id'[c]
                               <=> y \in DOMAIN remote_states_by_id[c]
                   /\ sender_state' = sender_state
                   /\ next_frame_counter' = next_frame_counter
          /\ (last'.ctx = c /\ last'.op \in {"encrypt", "advance_send_ratchet",
                                              "reset_send_ratchet"})
                => remote_states_by_id' = remote_states_by_id]_vars

\* a decrypt for sender id 1 advanced the state of sender id 1 by a
\* catch-up while sender id 2 holds a state registered on the same secret,
\* which would have authenticated the frame too and is as it was registered
SenderIsolationWitness ==
    /\ last.op = "decrypt"
    /\ last.sender_id = 1
    /\ last.result = "Ok"
    /\ last.phase = "B"
    /\ Len(StatesOf(1, 1)) >= 1
    /\ Len(added[1][2]) = 1
    /\ StatesOf(1, 2) = <<ReceiverStateNew(added[1][2][1][1], added[1][2][1][2])>>
    /\ OnChainOf(wire[last.frame].mac.key[2], added[1][2][1])
    /\ \E k \in 1 .. Len(StatesOf(1, 1)) :
          StatesOf(1, 1)[k].ratchet_frame = wire[last.frame].frame_counter

\* ---------------------------------------------------------------------
\* C26  Repeat decrypt is stable: right after a decrypt of a frame
\* returned Ok, through either loop, a decrypt of the same frame (same
\* sender id, counters, ciphertext and MAC) returns Ok from the first
\* loop, restores the same plaintext and leaves every ReceiverState as
\* it was.
RepeatDecryptStable ==
    [][\A c \in Ctxs : \A id \in SenderIds : \A i \in 1 .. Len(wire) :
          \A t \in TamperKinds :
              (/\ IsDecrypt(last, c, id, i, t)
               /\ last.result = "Ok"
               /\ IsDecrypt(last', c, id, i, t))
                  => /\ last'.result = "Ok"
                     /\ last'.phase = "A"
                     /\ last'.data = last.data
                     /\ remote_states_by_id' = remote_states_by_id]_vars

\* frame 1 was decrypted by the first loop on the state a catch-up commit
\* of that same late frame had left: current position at the frame's
\* counter, ratchet_frame its frame counter, old moved on by limit_ooo
RepeatDecryptWitness ==
    /\ IsDecrypt(last, 1, 1, 1, "none")
    /\ last.result = "Ok"
    /\ last.phase = "A"
    /\ Len(wire) = 2
    /\ wire[2].ratchet_counter = 1
    /\ StatesOf(1, 1) =
          <<[sender_state        |-> FrameSenderState(1),
             ratchet_frame       |-> wire[1].frame_counter,
             old_secret          |-> HkdfRatchetTimes(Root(1), RatchetCounterModulus - MAX_OOO_RATCHETS),
             old_ratchet_counter |-> RatchetCounterModulus - MAX_OOO_RATCHETS]>>

\* ---------------------------------------------------------------------
\* C27  The response callbacks of a DelegatingClient are single-shot: the
\* callback of a send_request is run at most once, by the first
\* received_response that carries its request id, which takes it out of
\* the pending map; a later received_response with that id, and one with
\* an id that is not pending, runs no callback and leaves the map as it is.

\* no callback was run twice, each was run for the request id it was
\* registered under, and a callback that was run or is about to be is no
\* longer in the map
RunAtMostOnce ==
    /\ \A j, k \in 1 .. Len(history.invoked) :
          history.invoked[j].callback = history.invoked[k].callback => j = k
    /\ \A k \in 1 .. Len(history.invoked) :
          \E g \in 1 .. Len(history.given) :
             /\ history.given[g].callback = history.invoked[k].callback
             /\ history.given[g].request_id = history.invoked[k].request_id
    /\ \A id \in DOMAIN response_callbacks.response_callback_by_request_id :
          /\ \A k \in 1 .. Len(history.invoked) :
                history.invoked[k].callback #
                    response_callbacks.response_callback_by_request_id[id]
          /\ \A t \in Threads : \A d \in 1 .. Len(thread[t]) :
                thread[t][d].fn = "received_response"
                    => thread[t][d].callback #
                          response_callbacks.response_callback_by_request_id[id]

CallbacksSingleShot ==
    /\ []RunAtMostOnce
    /\ [][\A t \in Threads :
            /\ (At(t, "received_response", "pop") /\ thread'[t] # thread[t])
                  => LET map == response_callbacks.response_callback_by_request_id
                         id  == Top(t).request_id
                     IN  IF id \in DOMAIN map
                         THEN /\ thread'[t][1].callback = map[id]
                              /\ response_callbacks'.response_callback_by_request_id
                                    = [k \in DOMAIN map \ {id} |-> map[k]]
                         ELSE /\ thread'[t][1].callback = NoCallback
                              /\ response_callbacks' = response_callbacks
            /\ (At(t, "received_response", "call") /\ thread'[t] # thread[t])
                  => /\ response_callbacks' = response_callbacks
                     /\ IF Top(t).callback = NoCallback
                        THEN history'.invoked = history.invoked
                        ELSE /\ Len(history'.invoked) = Len(history.invoked) + 1
                             /\ history'.invoked[Len(history'.invoked)].callback
                                   = Top(t).callback]_vars

\* the callback of request id 0 was run once, and two later responses, one
\* with request id 0 again and one with an id never given out, found no
\* callback
SingleShotWitness ==
    /\ Len(history.invoked) = 1
    /\ history.invoked[1].request_id = U32Zero
    /\ Len(history.unknown) = 2
    /\ \E j, k \in 1 .. 2 :
          /\ history.unknown[j] = U32Zero
          /\ history.unknown[k] = UnknownId
    /\ \A t \in Threads : thread[t] = <<>>

\* ---------------------------------------------------------------------
\* C28  Request ids are allocated monotonically: the i-th send_request
\* (from any thread, i counted from 0) is given request id i, two requests
\* that are pending at the same time never have the same id, and a pending
\* callback is never overwritten by a later send_request.

\* the callback of the g-th listed push was taken out of the map by a pop
Taken(g) ==
    \/ \E k \in 1 .. Len(history.invoked) :
          history.invoked[k].callback = history.given[g].callback
    \/ \E t \in Threads : \E d \in 1 .. Len(thread[t]) :
          /\ thread[t][d].fn = "received_response"
          /\ thread[t][d].callback = history.given[g].callback

RequestIdsMonotonic ==
    /\ \A g \in 1 .. Len(history.given) :
          history.given[g].request_id = history.given[g].ordinal
    /\ \A g, h \in 1 .. Len(history.given) :
          (g # h /\ ~Taken(g) /\ ~Taken(h))
              => history.given[g].request_id # history.given[h].request_id
    /\ history.dropped = {}

\* ---------------------------------------------------------------------
\* C29  send_request registers the callback under its request id before
\* Delegate::send_request is called with that id, so a received_response
\* for that id that arrives at any moment after the delegate saw the id,
\* from inside Delegate::send_request or from another thread, finds the
\* callback and invokes it.

\* the send_request call that made the g-th listed push has entered
\* Delegate::send_request with the request id it was given
SeenByDelegate(g) ==
    \A t \in Threads : \A d \in 1 .. Len(thread[t]) :
        (thread[t][d].fn = "send_request"
            /\ thread[t][d].callback = history.given[g].callback)
          => thread[t][d].pc = "in_delegate"

\* the listed pushes a response with request_id is the first answer to
AwaitedBy(request_id) ==
    {g \in 1 .. Len(history.given) :
        /\ history.given[g].request_id = request_id
        /\ SeenByDelegate(g)
        /\ ~Taken(g)}

\* the callback of every request the delegate has seen and no response has
\* taken is in the map under the request id the delegate was given
AwaitedRegistered ==
    \A g \in 1 .. Len(history.given) :
        g \in AwaitedBy(history.given[g].request_id)
          => LET map == response_callbacks.response_callback_by_request_id
                 id  == history.given[g].request_id
             IN  /\ id \in DOMAIN map
                 /\ map[id] = history.given[g].callback

ResponseFindsCallback ==
    /\ []AwaitedRegistered
    /\ [][\A t \in Threads :
            /\ (At(t, "received_response", "pop") /\ thread'[t] # thread[t])
                  => \A g \in AwaitedBy(Top(t).request_id) :
                        thread'[t][1].callback = history.given[g].callback
            /\ (At(t, "received_response", "call") /\ thread'[t] # thread[t]
                  /\ Top(t).callback # NoCallback)
                  => /\ Len(history'.invoked) = Len(history.invoked) + 1
                     /\ history'.invoked[Len(history'.invoked)].callback
                           = Top(t).callback
                     /\ history'.invoked[Len(history'.invoked)].request_id
                           = Top(t).request_id]_vars

\* ---------------------------------------------------------------------
\* C30  Lock discipline of DelegatingClient: no thread takes the delegate
\* lock while it holds the response_callbacks lock, which is held across
\* push and pop only; a thread holds both locks only while the delegate
\* calls received_response from inside Delegate::send_request, taken in
\* the order delegate, response_callbacks; received_response runs the
\* callback after it released the response_callbacks lock.  So no
\* interleaving of send_request and received_response calls of different
\* threads deadlocks on the two locks.

\* the lock thread t is about to take, "none" when it is at no lock() call
WaitsFor(t) ==
    IF thread[t] = <<>> THEN "none"
    ELSE IF Top(t).pc = "lock_callbacks" THEN "response_callbacks"
    ELSE IF Top(t).pc = "lock_delegate" THEN "delegate"
    ELSE "none"

\* the response_callbacks lock is held by the thread that is at push or pop
CallbacksLockAcrossPushPop ==
    \A t \in Threads :
        locks.response_callbacks = t
          <=> (thread[t] # <<>> /\ Top(t).pc \in {"push", "pop"})

\* the callbacks were run by threads that did not hold the
\* response_callbacks lock
CallbackRunUnlocked ==
    \A k \in 1 .. Len(history.invoked) :
        history.invoked[k].locks.response_callbacks # history.invoked[k].thread

\* a thread in a call can take a step, or it waits for a lock held by
\* another thread that can
NoDeadlock ==
    \A t \in Threads :
        thread[t] # <<>>
          => \/ ENABLED ThreadStep(t)
             \/ \E u \in Threads \ {t} :
                   /\ WaitsFor(t) # "none"
                   /\ locks[WaitsFor(t)] = u
                   /\ ENABLED ThreadStep(u)

\* the claim as stated: no thread holds the two locks at the same time
NeverBothLocks ==
    /\ \A t \in Threads :
          ~(locks.response_callbacks = t /\ locks.delegate = t)
    /\ CallbackRunUnlocked
    /\ NoDeadlock

LockDiscipline ==
    /\ CallbacksLockAcrossPushPop
    /\ \A t \in Threads :
          /\ WaitsFor(t) = "delegate" => locks.response_callbacks # t
          /\ (locks.response_callbacks = t /\ locks.delegate = t)
                => /\ Len(thread[t]) = 2
                   /\ thread[t][1].fn = "received_response"
                   /\ thread[t][2].fn = "send_request"
                   /\ thread[t][2].pc = "in_delegate"
    /\ CallbackRunUnlocked
    /\ NoDeadlock

\* a thread is at pop in a received_response called from inside
\* Delegate::send_request and holds both locks, while the other thread is
\* in send_request, has pushed its callback and waits for the delegate lock
NestedResponseWitness ==
    \E t \in Threads : \E u \in Threads \ {t} :
        /\ Len(thread[t]) = 2
        /\ At(t, "received_response", "pop")
        /\ locks = [response_callbacks |-> t, delegate |-> t]
        /\ At(u, "send_request", "lock_delegate")

====
